---- MODULE Spec2Model ----
(***************************************************************************)
(* Model of the book-recommendation backend (auth-app/backend).            *)
(*                                                                         *)
(* The subsystems are modelled each with its own specification:            *)
(*   SpecCounter / LiveCounter : models/interaction_counter.py -- the      *)
(*       shared like/dislike counter, the single-flight training trigger,  *)
(*       the background training run, the reload-and-invalidate step and   *)
(*       the Redis key space it clears.                                    *)
(*   SpecAuthor : models/user_sorted_author_preferences.py and             *)
(*       models/user_book_interaction.py -- the per-user sorted author     *)
(*       list and the like / dislike / remove handlers that drive it.      *)
(*   SpecConcurrent : models/user_book_interaction.py -- the same          *)
(*       handlers run by concurrent request threads, each split at its     *)
(*       find_one / write boundary.                                        *)
(*   SpecUbcf : models/recommendation_engine.py -- the user-similarity     *)
(*       cascade get_enhanced_ubcf_recommendations with its cache entry    *)
(*       and its cold-start retrain.                                       *)
(*   SpecAuthorCache : routes/best_from_author.py -- SpecAuthor together   *)
(*       with the best-from-author request that fills the cache.           *)
(*   SpecTrain : models/ContentBasedRecommender.py -- the streaming        *)
(*       training run train_model and the files it writes.                 *)
(*   SpecContent : models/ContentBasedRecommender.py and                   *)
(*       utils/user_language_detector.py -- the content-based requests,    *)
(*       the resident language indices and the language cache.             *)
(*   SpecVectorCache : ContentBasedRecommender's bounded vector cache.     *)
(*   SpecColdStart : SpecCounter together with the cold-start retrain of   *)
(*       recommendation_engine._retrain_for_new_user.                      *)
(*   SpecPattern : database/redis_manager.py -- delete_keys_by_pattern     *)
(*       next to request threads that store keys.                          *)
(*   SpecInflight : get_enhanced_ubcf_recommendations split at its cache   *)
(*       read, its computation and its cache write, next to a like or      *)
(*       dislike of the same user.                                         *)
(* The handlers of user_book_interaction.py end with a call to             *)
(* interaction_counter.increment_counter(); that call only touches the     *)
(* counter document and is modelled by the caller processes of             *)
(* SpecCounter.                                                            *)
(***************************************************************************)
EXTENDS Integers, Sequences, FiniteSets, TLC

\* ---------------------------------------------------------------------
\* Bounds of the model
\* ---------------------------------------------------------------------
\* number of request threads that may be inside increment_counter at once
NumCallers == 2
\* total number of increment_counter calls in one behaviour
MaxCalls == 12

\* ---------------------------------------------------------------------
\* Program constants
\* ---------------------------------------------------------------------
\* InteractionCounter.__init__: self.INTERACTION_THRESHOLD = 10
INTERACTION_THRESHOLD == 10

Callers == 1..NumCallers

VARIABLES
    \* --- counter document (counter.interaction_counters) ---
    current_count,
    total_retrainings,
    \* --- InteractionCounter in-process state ---
    training_in_progress,
    \* --- request threads inside increment_counter ---
    cpc,            \* position of each caller
    cval,           \* the caller's local current_count / trigger_count
    \* --- background training threads, in launch order ---
    runs,
    \* --- Redis key space ---
    cache,
    \* --- observation (history) variables ---
    ncalls,         \* increment_counter calls made so far
    ntrue,          \* calls that returned True
    dropped_while_running,  \* a trigger was dropped while a run was active
    admin_reset_used,       \* POST /counter/reset was served
    thread_start_failed,    \* Thread.start() raised in a trigger
    crossing        \* the first trigger dropped while the flag was set,
                    \* and the first call made after the flag's release

VARIABLES
    \* --- user_auth.user_book_interactions: action per (user, book) ---
    interactions,
    \* --- user_auth.user_liked_genres / user_disliked_genres: counts ---
    liked_genres,
    disliked_genres,
    \* --- user_auth.user_sorted_author_preferences: one document per user
    author_prefs,
    \* --- observation (history) variables ---
    nops,           \* like / dislike / remove requests served so far
    scenario        \* per user: progress of "first like, then dislike"

VARIABLES
    \* --- user_auth.user_book_interactions as a collection: for every
    \* (user, book) the action fields of the stored documents, in
    \* insertion order ---
    interaction_docs,
    \* --- request threads inside like_book / dislike_book ---
    req,
    \* --- observation (history) variables ---
    nreqs           \* requests started by the concurrent threads

VARIABLES
    \* --- user_auth_db.user_similarities: the target user's document,
    \* a sequence of length 0 (no document) or 1 ---
    sim_entry,
    \* --- ALSRecommendationEngine.user_mapping holds the target user ---
    in_mapping,
    \* --- liked books of each similar user, most recent first ---
    liked_by,
    \* --- book names the target user has interacted with ---
    target_seen,
    \* --- the target user's profile languages ---
    user_languages,
    \* --- the list stored under recommendations:user:{id}:enhanced_ubcf
    cached_recs,
    \* --- observation (history) variables ---
    last_call,      \* the latest get_enhanced_ubcf_recommendations call
    nubcf           \* operations served in the recommendation model

VARIABLES
    \* --- books collection: the documents with a summary and a language,
    \* in cursor order ---
    books_collection,
    \* --- files on disk; a file is <<>> (absent) or <<content>> ---
    extractor_files,    \* models/*.joblib, by model_files key
    meta_files,         \* book_ids.npy, book_names.npy, book_langs.npy
    index_files,        \* FAISS/faiss_index_{lang}.index
    ids_files,          \* book_ids_{lang}.npy
    \* --- ContentBasedRecommender instance ---
    model_loaded,
    \* --- the train_model call in progress ---
    tpc,                    \* its position
    all_book_ids,           \* all_book_ids / _names / _languages
    lang_faiss_builders,    \* per-language builders, in insertion order
    \* --- observation (history) variables ---
    last_run,       \* the latest train_model call
    ntrain          \* operations served in the training model

VARIABLES
    \* --- UserLanguageDetector._language_cache: for each user <<>> or the
    \* one set object stored under the user's key, as <<value>> ---
    language_cache,
    \* --- ContentBasedRecommender instance ---
    loaded_languages,   \* the object self.loaded_languages refers to
    own_languages,      \* the value of the set object made by __init__
    faiss_indices,      \* the languages with a resident index
    current_user_id,
    vector_cache,       \* book ids and vectors, in insertion order
    \* --- stored data the requests read ---
    history,            \* each user's liked and disliked books
    similarity,         \* inner product of a book with the like profile
    \* --- observation (history) variables ---
    last_request,   \* the latest content-based request
    last_transform, \* the latest _transform_single_book_to_vector call
    ncontent        \* requests served in the content model

VARIABLES
    \* --- cold-start retrains (_retrain_for_new_user) ---
    cold_retrain,   \* per new user: the position of its request and the
                    \* user's presence in the reloaded user_mapping
    ncold,          \* _retrain_for_new_user calls made
    \* --- RedisManager.delete_keys_by_pattern next to other clients ---
    redis_store,    \* the keys present in Redis
    pd,             \* the pattern delete: its position, the KEYS reply
                    \* and whether its DEL was executed
    npd,            \* commands issued in the pattern-delete model
    \* --- get_enhanced_ubcf_recommendations and like_book / dislike_book
    \* of the same user in concurrent request threads ---
    flight,         \* per request thread: position, num_recommendations,
                    \* the books whose like / dislike had returned when
                    \* the call was made, and the computed list
    liker,          \* the like / dislike request: position, book, keys
    like_returned,  \* books whose like_book / dislike_book has returned
    last_served,    \* the latest list a recommendation call returned
    redis_down,     \* some Redis call found the server unavailable
    nflight,        \* requests made in this model
    \* --- observation of UserBookInteraction.remove_interaction ---
    last_remove     \* the latest call: the pair's stored action, the
                    \* request's action and the value returned

counterVars == <<current_count, total_retrainings, training_in_progress,
                 cpc, cval, runs, ncalls, ntrue, dropped_while_running,
                 admin_reset_used, thread_start_failed, crossing>>

authorVars == <<interactions, liked_genres, disliked_genres, author_prefs,
                nops, scenario>>

ubiVars == <<interaction_docs, req, nreqs>>

\* the variables of the subsystems other than the counter, the cache and
\* the sequential handlers
ubcfVars == <<sim_entry, in_mapping, liked_by, target_seen, user_languages,
              cached_recs, last_call, nubcf>>

trainVars == <<books_collection, extractor_files, meta_files, index_files,
               ids_files, model_loaded, tpc, all_book_ids, lang_faiss_builders,
               last_run, ntrain>>

contentVars == <<language_cache, loaded_languages, own_languages,
                 faiss_indices, current_user_id, vector_cache, history,
                 similarity, last_request, last_transform, ncontent>>

coldVars == <<cold_retrain, ncold>>

patternVars == <<redis_store, pd, npd>>

inflightVars == <<flight, liker, like_returned, last_served, redis_down,
                  nflight>>

removeVars == <<last_remove>>

\* requests in flight in the request threads, and the observed calls
flightVars == <<coldVars, patternVars, inflightVars, removeVars>>

extVars == <<ubiVars, ubcfVars, trainVars, contentVars, flightVars>>

vars == <<counterVars, cache, authorVars, extVars>>

\* ---------------------------------------------------------------------
\* Redis keys.  A key is the sequence of its ':'-separated segments; a
\* pattern is a sequence of segments whose last element is the glob "*".
\* ---------------------------------------------------------------------
TheUser == "u1"

\* cache_service.cache_user_recommendations: recommendations:user:{id}:{alg}
KeyCollaborative == <<"recommendations", "user", TheUser, "enhanced_ubcf">>
\* routes/recommendations.py: based_on_likes:user:{id}:{limit}
KeyBasedOnLikes == <<"based_on_likes", "user", TheUser, "10">>
\* continue_reading_service.py: continue_reading:user:{id}
KeyContinueReading == <<"continue_reading", "user", TheUser>>
\* cache_service.cache_popular_books: popular_books:limit:{limit}
KeyPopularBooks == <<"popular_books", "limit", "10">>
\* routes/best_from_author.py: best_from_author:user_obj:{id}:limit:{limit}
KeyBestFromAuthor == <<"best_from_author", "user_obj", TheUser, "limit", "10">>

CacheKeys == {KeyCollaborative, KeyBasedOnLikes, KeyContinueReading,
              KeyPopularBooks, KeyBestFromAuthor}

Absent == "absent"

\* glob match of KEYS <pattern>: every segment before the trailing "*"
\* must equal the key's segment at that position
MatchesPattern(pattern, key) ==
    /\ Len(key) >= Len(pattern) - 1
    /\ \A i \in 1..(Len(pattern) - 1) : key[i] = pattern[i]

\* clear_all_recommendation_caches: the list `patterns`
ClearPatterns ==
    { <<"recommendations", "*">>,
      <<"based_on_likes", "*">>,
      <<"continue_reading", "*">>,
      <<"popular_books", "*">>,
      <<"collaborative_filtering", "*">>,
      <<"content_based", "*">> }

\* keys = client.keys(pattern); client.delete(*keys), for every pattern
ClearAllRecommendationCaches(c) ==
    [k \in CacheKeys |->
        IF \E pat \in ClearPatterns : MatchesPattern(pat, k)
        THEN Absent ELSE c[k]]

\* ---------------------------------------------------------------------
\* increment_counter and _trigger_model_training
\* ---------------------------------------------------------------------
\* increment_counter: `if current_count >= threshold`
ThresholdReachedStrict(c, t) == c > t
ThresholdReached(c, t) == c >= t

\* _trigger_model_training: `if self._training_in_progress: return False`
TriggerBlockedNever(flag) == FALSE
TriggerBlocked(flag) == flag

\* _execute_training, finally: self._training_in_progress = False
FlagAfterFinallyLeak(flag) == flag
FlagAfterFinally(flag) == FALSE

\* the TrainingRecord and thread-local state of a freshly started thread
NewRun(trigger_count) ==
    [ pc            |-> "insert",
      trigger_count |-> trigger_count,
      status        |-> "none",      \* no TrainingRecord inserted yet
      proc          |-> "none",      \* the training subprocess
      exc           |-> FALSE,       \* the except branch was entered
      record_lost   |-> FALSE,       \* the except branch's own write raised
      retrain_inc   |-> 0,           \* this run's $inc of total_retrainings
      reloaded      |-> FALSE,       \* reload-and-invalidate was invoked
      cache_reachable |-> FALSE,     \* redis.is_available() at that time
      stale         |-> {} ]         \* keys left in Redis right after it

RunIds == 1..Len(runs)

\* the background threads that have been started and have not ended
ActiveRuns == {i \in RunIds : runs[i].pc # "done"}

\* no trigger was dropped yet
NoCrossing ==
    [dropped |-> FALSE, released |-> FALSE, first |-> 0,
     overlapped |-> FALSE, result |-> "none"]

\* find_one_and_update($inc current_count), then the threshold test
IncrementCounter(p) ==
    /\ cpc[p] = "idle"
    /\ ncalls < MaxCalls
    /\ current_count' = current_count + 1
    /\ ncalls' = ncalls + 1
    /\ IF ThresholdReached(current_count + 1, INTERACTION_THRESHOLD)
       THEN /\ cpc' = [cpc EXCEPT ![p] = "trigger"]
            /\ cval' = [cval EXCEPT ![p] = current_count + 1]
       ELSE \* return False
            /\ UNCHANGED <<cpc, cval>>
    /\ crossing' =
          IF crossing.dropped /\ crossing.released /\ crossing.first = 0
          THEN [crossing EXCEPT
                  !.first = p,
                  !.overlapped = @ \/ \E q \in Callers : cpc[q] # "idle",
                  !.result =
                      IF ThresholdReached(current_count + 1,
                                          INTERACTION_THRESHOLD)
                      THEN "none" ELSE "false"]
          ELSE IF crossing.first # 0 /\ crossing.result = "none"
          THEN [crossing EXCEPT !.overlapped = TRUE]
          ELSE crossing
    /\ UNCHANGED <<total_retrainings, training_in_progress, runs, cache,
                   ntrue, dropped_while_running, admin_reset_used,
                   thread_start_failed>>
    /\ UNCHANGED <<authorVars, extVars>>

\* with self._training_lock: test and set _training_in_progress
TriggerCheck(p) ==
    /\ cpc[p] = "trigger"
    /\ IF TriggerBlocked(training_in_progress)
       THEN \* return False: the trigger is dropped
            /\ cpc' = [cpc EXCEPT ![p] = "idle"]
            /\ cval' = [cval EXCEPT ![p] = 0]
            /\ dropped_while_running' =
                  (dropped_while_running \/ ActiveRuns # {})
            /\ crossing' =
                  IF crossing.first = p /\ crossing.result = "none"
                  THEN [crossing EXCEPT !.result = "false"]
                  ELSE IF ~crossing.released
                  THEN [crossing EXCEPT !.dropped = TRUE]
                  ELSE crossing
            /\ UNCHANGED training_in_progress
       ELSE /\ training_in_progress' = TRUE
            /\ cpc' = [cpc EXCEPT ![p] = "reset"]
            /\ UNCHANGED <<cval, dropped_while_running, crossing>>
    /\ UNCHANGED <<current_count, total_retrainings, runs, cache, ncalls,
                   ntrue, admin_reset_used, thread_start_failed>>
    /\ UNCHANGED <<authorVars, extVars>>

\* self.reset_counter(): $set current_count = 0
TriggerReset(p) ==
    /\ cpc[p] = "reset"
    /\ current_count' = 0
    /\ cpc' = [cpc EXCEPT ![p] = "start"]
    /\ UNCHANGED <<total_retrainings, training_in_progress, cval, runs,
                   cache, ncalls, ntrue, dropped_while_running, admin_reset_used,
                   thread_start_failed, crossing>>
    /\ UNCHANGED <<authorVars, extVars>>

\* training_thread.start(); return True -- or start() raises, the except
\* branch releases the flag and returns False
TriggerStart(p) ==
    /\ cpc[p] = "start"
    /\ \E started \in BOOLEAN :
         /\ IF started
            THEN /\ runs' = Append(runs, NewRun(cval[p]))
                 /\ ntrue' = ntrue + 1
                 /\ UNCHANGED <<training_in_progress, thread_start_failed>>
            ELSE /\ training_in_progress' = FALSE
                 /\ thread_start_failed' = TRUE
                 /\ UNCHANGED <<runs, ntrue>>
         /\ crossing' =
               IF crossing.first = p /\ crossing.result = "none"
               THEN [crossing EXCEPT
                       !.result = IF started THEN "true" ELSE "false"]
               ELSE crossing
    /\ cpc' = [cpc EXCEPT ![p] = "idle"]
    /\ cval' = [cval EXCEPT ![p] = 0]
    /\ UNCHANGED <<current_count, total_retrainings, cache, ncalls,
                   dropped_while_running, admin_reset_used>>
    /\ UNCHANGED <<authorVars, extVars>>

\* routes/counter.py POST /reset: interaction_counter.reset_counter()
AdminReset ==
    /\ current_count' = 0
    /\ admin_reset_used' = TRUE
    /\ UNCHANGED <<total_retrainings, training_in_progress, cpc, cval, runs,
                   cache, ncalls, ntrue, dropped_while_running,
                   thread_start_failed, crossing>>
    /\ UNCHANGED <<authorVars, extVars>>

\* ---------------------------------------------------------------------
\* _execute_training: the background thread
\* ---------------------------------------------------------------------
RunUnchanged == UNCHANGED <<current_count, training_in_progress, cpc, cval,
                            ncalls, ntrue, dropped_while_running,
                            admin_reset_used, thread_start_failed, crossing,
                            authorVars, extVars>>

\* training_status written for each way communicate() can end
StatusForOutcomeAlwaysSuccess(proc) == "success"
StatusForOutcome(proc) ==
    CASE proc = "exit0"  -> "success"
      [] proc = "exitN"  -> "failed"
      [] proc = "killed" -> "timeout"

\* {"$inc": {"total_retrainings": 1}}
RetrainIncrement == 1

\* an exception inside the try block transfers control to `except Exception`
Raise(r) == [r EXCEPT !.pc = "handler", !.exc = TRUE]

\* training_history_collection.insert_one(training_record)
RunInsertRecord(i) ==
    /\ runs[i].pc = "insert"
    /\ \E ok \in BOOLEAN :
         runs' = [runs EXCEPT ![i] =
                    IF ok THEN [@ EXCEPT !.status = "in_progress",
                                         !.pc = "check_script"]
                    ELSE Raise(@)]
    /\ RunUnchanged
    /\ UNCHANGED <<total_retrainings, cache>>

\* if not os.path.exists(train_script_path): raise FileNotFoundError
RunCheckScript(i) ==
    /\ runs[i].pc = "check_script"
    /\ \E exists \in BOOLEAN :
         runs' = [runs EXCEPT ![i] =
                    IF exists THEN [@ EXCEPT !.pc = "spawn"] ELSE Raise(@)]
    /\ RunUnchanged
    /\ UNCHANGED <<total_retrainings, cache>>

\* process = subprocess.Popen([...])
RunSpawn(i) ==
    /\ runs[i].pc = "spawn"
    /\ \E ok \in BOOLEAN :
         runs' = [runs EXCEPT ![i] =
                    IF ok THEN [@ EXCEPT !.proc = "running", !.pc = "wait"]
                    ELSE Raise(@)]
    /\ RunUnchanged
    /\ UNCHANGED <<total_retrainings, cache>>

\* process.communicate(timeout=TRAINING_TIMEOUT): the child exits with 0,
\* exits with another code, or TimeoutExpired is raised and the child is
\* killed
RunCommunicate(i) ==
    /\ runs[i].pc = "wait"
    /\ \E outcome \in {"exit0", "exitN", "killed"} :
         runs' = [runs EXCEPT ![i] = [@ EXCEPT !.proc = outcome,
                                               !.pc = "write_status"]]
    /\ RunUnchanged
    /\ UNCHANGED <<total_retrainings, cache>>

\* training_history_collection.update_one({"_id": training_id}, {"$set":
\* {"training_status": ...}}) in the success / failed / timeout branch
RunWriteStatus(i) ==
    /\ runs[i].pc = "write_status"
    /\ \E ok \in BOOLEAN :
         runs' = [runs EXCEPT ![i] =
                    IF ok
                    THEN [@ EXCEPT !.status = StatusForOutcome(runs[i].proc),
                                   !.pc = IF runs[i].proc = "exit0"
                                          THEN "inc_total" ELSE "finally"]
                    ELSE Raise(@)]
    /\ RunUnchanged
    /\ UNCHANGED <<total_retrainings, cache>>

\* counters_collection.update_one({"$inc": {"total_retrainings": 1}})
RunIncTotal(i) ==
    /\ runs[i].pc = "inc_total"
    /\ \E ok \in BOOLEAN :
         IF ok
         THEN /\ total_retrainings' = total_retrainings + RetrainIncrement
              /\ runs' = [runs EXCEPT ![i] =
                            [@ EXCEPT !.retrain_inc = RetrainIncrement,
                                      !.pc = "reload"]]
         ELSE /\ runs' = [runs EXCEPT ![i] = Raise(@)]
              /\ UNCHANGED total_retrainings
    /\ RunUnchanged
    /\ UNCHANGED cache

\* the cache keys with a recommendation-related prefix that are present
RecommendationPrefixes ==
    {"recommendations", "based_on_likes", "best_from_author",
     "popular_books", "continue_reading"}

RecommendationKeysIn(c) ==
    {k \in CacheKeys : c[k] # Absent /\ k[1] \in RecommendationPrefixes}

\* self._reload_model_and_clear_caches(): clear_all_recommendation_caches
\* deletes by pattern when cache_service.redis.is_available()
RunReload(i) ==
    /\ runs[i].pc = "reload"
    /\ \E available \in BOOLEAN :
         /\ cache' = IF available THEN ClearAllRecommendationCaches(cache)
                     ELSE cache
         /\ runs' = [runs EXCEPT ![i] =
                       [@ EXCEPT !.reloaded = TRUE,
                                 !.cache_reachable = available,
                                 !.stale = RecommendationKeysIn(cache'),
                                 !.pc = "finally"]]
    /\ RunUnchanged
    /\ UNCHANGED total_retrainings

\* except Exception: if training_id: update_one(status = "error"); the
\* update may itself raise, which leaves the record as it was
RunHandler(i) ==
    /\ runs[i].pc = "handler"
    /\ IF runs[i].status = "none"
       THEN runs' = [runs EXCEPT ![i] = [@ EXCEPT !.pc = "finally"]]
       ELSE \E ok \in BOOLEAN :
              runs' = [runs EXCEPT ![i] =
                         IF ok THEN [@ EXCEPT !.status = "error",
                                              !.pc = "finally"]
                         ELSE [@ EXCEPT !.record_lost = TRUE,
                                        !.pc = "finally"]]
    /\ RunUnchanged
    /\ UNCHANGED <<total_retrainings, cache>>

\* finally: with self._training_lock: self._training_in_progress = False
RunFinally(i) ==
    /\ runs[i].pc = "finally"
    /\ training_in_progress' = FlagAfterFinally(training_in_progress)
    /\ runs' = [runs EXCEPT ![i] = [@ EXCEPT !.pc = "done"]]
    /\ crossing' =
          IF crossing.dropped /\ ~crossing.released
          THEN [crossing EXCEPT
                  !.released = TRUE,
                  !.overlapped = \E q \in Callers : cpc[q] # "idle"]
          ELSE crossing
    /\ UNCHANGED <<current_count, total_retrainings, cpc, cval, cache,
                   ncalls, ntrue, dropped_while_running, admin_reset_used,
                   thread_start_failed>>
    /\ UNCHANGED <<authorVars, extVars>>

\* a request handler stores a computed result: redis.set_cache(key, ...)
CachePut(k) ==
    /\ cache[k] = Absent
    /\ cache' = [cache EXCEPT ![k] = "data"]
    /\ UNCHANGED <<current_count, total_retrainings, training_in_progress,
                   cpc, cval, runs, ncalls, ntrue, dropped_while_running,
                   admin_reset_used, thread_start_failed, crossing>>
    /\ UNCHANGED <<authorVars, extVars>>

\* ---------------------------------------------------------------------
\* Author preferences (UserSortedAuthorPreferences) and the interaction
\* handlers (UserBookInteraction)
\* ---------------------------------------------------------------------
\* number of like / dislike / remove requests in one behaviour
MaxOps == 5

Users == {TheUser}
Books == {"A", "B"}

\* An author name is a string: the sequence of its characters.  The route
\* passes data.get("book_author", ""), so the empty string occurs.
AuthorNames == {<<>>, <<"X">>, <<"X", "y">>}

\* book_genres of a request, as the list _parse_genres returns
GenreLists == {<<"Fantasy">>}
Genres == {"Fantasy"}

Actions == {"like", "dislike"}

\* no interaction document for the pair
None == "none"

\* update_author_preference: weights = {"like": 1, "dislike": -1}
Weight(action) ==
    IF action = "like" THEN 1 ELSE IF action = "dislike" THEN -1 ELSE 0

\* max(n, 0)
Max0(n) == IF n > 0 THEN n ELSE 0

\* s with element i removed: sorted_authors.pop(i)
RemoveAt(s, i) == SubSeq(s, 1, i - 1) \o SubSeq(s, i + 1, Len(s))

\* position at which e goes into the descending sequence s so that it
\* follows every element whose count is not smaller (a stable sort)
InsertPos(s, e) ==
    LET later == {j \in 1..Len(s) :
                    s[j].preference_count < e.preference_count}
    IN  IF later = {} THEN Len(s) + 1
        ELSE CHOOSE j \in later : \A k \in later : j <= k

RECURSIVE SortDescPrefix(_, _)
SortDescPrefix(s, n) ==
    IF n = 0 THEN <<>>
    ELSE LET done == SortDescPrefix(s, n - 1)
             pos  == InsertPos(done, s[n])
         IN  SubSeq(done, 1, pos - 1) \o <<s[n]>>
                \o SubSeq(done, pos, Len(done))

\* sorted_authors.sort(key=lambda x: x["preference_count"], reverse=True)
SortDesc(s) == SortDescPrefix(s, Len(s))

\* index of the first entry named author_name, 0 when there is none
IndexOfAuthor(s, author_name) ==
    LET hits == {j \in 1..Len(s) : s[j].author_name = author_name}
    IN  IF hits = {} THEN 0
        ELSE CHOOSE j \in hits : \A k \in hits : j <= k

NoPrefsDoc == [exists |-> FALSE, sorted_authors |-> <<>>]

\* UserSortedAuthorPreferences.update_author_preference, on the user's
\* document
UpdateAuthorPreference(doc, author_name, action, book_name) ==
    LET weight == Weight(action)
        s == doc.sorted_authors
        i == IndexOfAuthor(s, author_name)
    IN  IF author_name = <<>> THEN doc
        ELSE IF weight = 0 THEN doc
        ELSE IF ~doc.exists
        THEN [exists |-> TRUE,
              sorted_authors |->
                IF weight > 0
                THEN << [author_name |-> author_name,
                         preference_count |-> Max0(weight),
                         books_liked |-> {book_name},
                         books_disliked |-> {},
                         total_interactions |-> 1] >>
                ELSE <<>>]
        ELSE IF i # 0
        THEN LET new_count == s[i].preference_count + weight
                 author ==
                   [s[i] EXCEPT
                      !.preference_count = Max0(new_count),
                      !.total_interactions = @ + 1,
                      !.books_liked =
                          IF weight > 0 THEN @ \cup {book_name} ELSE @,
                      !.books_disliked =
                          IF weight > 0 THEN @ ELSE @ \cup {book_name}]
             IN  [doc EXCEPT !.sorted_authors =
                    IF author.preference_count <= 0
                    THEN RemoveAt(s, i)
                    ELSE SortDesc([s EXCEPT ![i] = author])]
        ELSE IF weight > 0
        THEN [doc EXCEPT !.sorted_authors =
                SortDesc(Append(s, [author_name |-> author_name,
                                    preference_count |-> weight,
                                    books_liked |-> {book_name},
                                    books_disliked |-> {},
                                    total_interactions |-> 1]))]
        ELSE doc

\* UserSortedAuthorPreferences.remove_author_preference: one update_one
\* with $pull and $inc on the array elements named author_name
RemoveAuthorPreference(doc, author_name, action, book_name) ==
    LET weight == IF action = "like" THEN -1 ELSE 1
        s == doc.sorted_authors
    IN  [doc EXCEPT !.sorted_authors =
           [j \in 1..Len(s) |->
              IF s[j].author_name = author_name
              THEN [s[j] EXCEPT
                      !.preference_count = @ + weight,
                      !.total_interactions = @ - 1,
                      !.books_liked =
                          IF action = "like" THEN @ \ {book_name} ELSE @,
                      !.books_disliked =
                          IF action = "like" THEN @ ELSE @ \ {book_name}]
              ELSE s[j]]]

\* UserSortedAuthorPreferences.get_most_preferred_author: the $slice 1 of
\* sorted_authors; the empty sequence stands for the result None
GetMostPreferredAuthor(doc) ==
    IF doc.sorted_authors # <<>> THEN <<doc.sorted_authors[1]>> ELSE <<>>

\* _update_author_affinity: current_top_author["author_name"] or None
\* (the empty set stands for None)
TopAuthorName(doc) ==
    {GetMostPreferredAuthor(doc)[j].author_name :
        j \in 1..Len(GetMostPreferredAuthor(doc))}

\* book_author[0]: the first character of the string
FirstChar(book_author) == <<book_author[1]>>

\* _add_genre_preferences: one increment per listed genre
RECURSIVE AddGenrePreferences(_, _, _)
AddGenrePreferences(counts, genres, n) ==
    IF n = 0 THEN counts
    ELSE LET c == AddGenrePreferences(counts, genres, n - 1)
         IN  [c EXCEPT ![genres[n]] = @ + 1]

\* _remove_genre_preferences: delete the document at count <= 1, else
\* decrement; nothing for a genre without a document
RECURSIVE RemoveGenrePreferences(_, _, _)
RemoveGenrePreferences(counts, genres, n) ==
    IF n = 0 THEN counts
    ELSE LET c == RemoveGenrePreferences(counts, genres, n - 1)
         IN  [c EXCEPT ![genres[n]] = IF @ <= 1 THEN 0 ELSE @ - 1]

\* redis.delete_keys_by_pattern(pattern)
DeleteKeysByPattern(c, pattern) ==
    [k \in CacheKeys |-> IF MatchesPattern(pattern, k) THEN Absent ELSE c[k]]

\* cache_service.invalidate_user_recommendations(user_id)
InvalidateUserRecommendations(c, u) ==
    DeleteKeysByPattern(c, <<"recommendations", "user", u, "*">>)

\* like_book / dislike_book after _update_author_affinity: invalidate the
\* user's recommendations, and the author-based keys when the top author
\* changed
CacheAfterInteraction(c, u, author_ranking_changed) ==
    LET c1 == InvalidateUserRecommendations(c, u)
    IN  IF author_ranking_changed
        THEN DeleteKeysByPattern(c1, <<"best_from_author", "user", u, "*">>)
        ELSE c1

\* the observer of "a user without interactions likes a book, then
\* dislikes the same book with the same author"
ScenarioAfter(sc, first, op, b, a) ==
    IF first /\ op = "like"
    THEN [stage |-> "liked", book |-> b, author |-> a]
    ELSE IF sc.stage = "liked" /\ op = "dislike" /\ sc.book = b
            /\ sc.author = a
    THEN [stage |-> "disliked", book |-> b, author |-> a]
    ELSE [stage |-> "other", book |-> None, author |-> <<>>]

HasNoInteractions(u) == \A b \in Books : interactions[u][b] = None

AuthorFrame == UNCHANGED <<counterVars, extVars>>

\* UserBookInteraction.like_book
LikeBook(u, b, book_author, genres) ==
    /\ nops < MaxOps
    /\ nops' = nops + 1
    /\ scenario' = [scenario EXCEPT ![u] =
                      ScenarioAfter(@, nops = 0 /\ HasNoInteractions(u),
                                    "like", b, book_author)]
    /\ IF interactions[u][b] = "like"
       THEN \* old_action == "like": return True
            UNCHANGED <<interactions, liked_genres, disliked_genres,
                        author_prefs, cache>>
       ELSE LET overwrite == interactions[u][b] = "dislike"
                removed == IF overwrite
                           THEN RemoveAuthorPreference(author_prefs[u],
                                   book_author, "dislike", b)
                           ELSE author_prefs[u]
                updated == UpdateAuthorPreference(removed, book_author,
                                                  "like", b)
                changed == TopAuthorName(removed) # TopAuthorName(updated)
            IN  /\ interactions' = [interactions EXCEPT ![u][b] = "like"]
                /\ IF overwrite
                   THEN /\ disliked_genres' =
                             [disliked_genres EXCEPT ![u] =
                                RemoveGenrePreferences(@, genres,
                                                       Len(genres))]
                        /\ UNCHANGED liked_genres
                   ELSE /\ liked_genres' =
                             [liked_genres EXCEPT ![u] =
                                AddGenrePreferences(@, genres, Len(genres))]
                        /\ UNCHANGED disliked_genres
                /\ author_prefs' = [author_prefs EXCEPT ![u] = updated]
                /\ cache' = CacheAfterInteraction(cache, u, changed)
    /\ AuthorFrame

\* UserBookInteraction.dislike_book; book_author[0] raises IndexError on
\* the empty string and the handler returns False from its except branch
DislikeBook(u, b, book_author, genres) ==
    /\ nops < MaxOps
    /\ nops' = nops + 1
    /\ scenario' = [scenario EXCEPT ![u] =
                      ScenarioAfter(@, FALSE, "dislike", b, book_author)]
    /\ IF interactions[u][b] = "dislike"
       THEN \* old_action == "dislike": return True
            UNCHANGED <<interactions, liked_genres, disliked_genres,
                        author_prefs, cache>>
       ELSE IF interactions[u][b] = "like"
       THEN LET removed == RemoveAuthorPreference(author_prefs[u],
                              book_author, "like", b)
            IN  /\ interactions' =
                     [interactions EXCEPT ![u][b] = "dislike"]
                /\ liked_genres' =
                     [liked_genres EXCEPT ![u] =
                        RemoveGenrePreferences(@, genres, Len(genres))]
                /\ UNCHANGED disliked_genres
                /\ IF book_author = <<>>
                   THEN \* IndexError after the overwrite
                        /\ author_prefs' =
                             [author_prefs EXCEPT ![u] = removed]
                        /\ UNCHANGED cache
                   ELSE LET updated ==
                              UpdateAuthorPreference(removed,
                                 FirstChar(book_author), "dislike", b)
                            changed == TopAuthorName(removed)
                                          # TopAuthorName(updated)
                        IN  /\ author_prefs' =
                                 [author_prefs EXCEPT ![u] = updated]
                            /\ cache' =
                                 CacheAfterInteraction(cache, u, changed)
       ELSE IF book_author = <<>>
       THEN \* IndexError while building the new interaction document
            UNCHANGED <<interactions, liked_genres, disliked_genres,
                        author_prefs, cache>>
       ELSE LET updated == UpdateAuthorPreference(author_prefs[u],
                              FirstChar(book_author), "dislike", b)
                changed == TopAuthorName(author_prefs[u])
                              # TopAuthorName(updated)
            IN  /\ interactions' =
                     [interactions EXCEPT ![u][b] = "dislike"]
                /\ disliked_genres' =
                     [disliked_genres EXCEPT ![u] =
                        AddGenrePreferences(@, genres, Len(genres))]
                /\ UNCHANGED liked_genres
                /\ author_prefs' = [author_prefs EXCEPT ![u] = updated]
                /\ cache' = CacheAfterInteraction(cache, u, changed)
    /\ AuthorFrame

\* `if result.deleted_count > 0: return True`: delete_one filters on the
\* user and the book name only
DeletedOne(stored) == stored # None

\* UserBookInteraction.remove_interaction: delete_one on the pair, then
\* remove_author_preferences and _remove_genre_preferences with the
\* request's author, genres and action
RemoveInteraction(u, b, book_author, genres, action) ==
    /\ nops < MaxOps
    /\ nops' = nops + 1
    /\ scenario' = [scenario EXCEPT ![u] =
                      ScenarioAfter(@, FALSE, "remove", b, book_author)]
    /\ interactions' = [interactions EXCEPT ![u][b] = None]
    /\ author_prefs' = [author_prefs EXCEPT ![u] =
                          RemoveAuthorPreference(@, book_author, action, b)]
    /\ IF action = "like"
       THEN /\ liked_genres' =
                 [liked_genres EXCEPT ![u] =
                    RemoveGenrePreferences(@, genres, Len(genres))]
            /\ UNCHANGED disliked_genres
       ELSE /\ disliked_genres' =
                 [disliked_genres EXCEPT ![u] =
                    RemoveGenrePreferences(@, genres, Len(genres))]
            /\ UNCHANGED liked_genres
    /\ last_remove' = [seq |-> nops + 1,
                       stored |-> interactions[u][b],
                       action |-> action,
                       returned |-> DeletedOne(interactions[u][b])]
    /\ UNCHANGED cache
    /\ UNCHANGED <<counterVars, ubiVars, ubcfVars, trainVars, contentVars,
                   coldVars, patternVars, inflightVars>>

\* the best-from-author keys of a user
BestFromAuthorKeys(u) ==
    {k \in CacheKeys : k[1] = "best_from_author" /\ k[3] = u}

\* routes/best_from_author.py GET: on a cache miss, when the user has a
\* most preferred author with unread books, the response is stored under
\* best_from_author:user_obj:{id}:limit:{limit}
BestFromAuthorRequest(u) ==
    /\ author_prefs[u].exists
    /\ author_prefs[u].sorted_authors # <<>>
    /\ \E k \in BestFromAuthorKeys(u) :
         /\ cache[k] = Absent
         /\ cache' = [cache EXCEPT ![k] = "data"]
    /\ UNCHANGED authorVars
    /\ AuthorFrame

InitAuthor ==
    /\ interactions = [u \in Users |-> [b \in Books |-> None]]
    /\ liked_genres = [u \in Users |-> [g \in Genres |-> 0]]
    /\ disliked_genres = [u \in Users |-> [g \in Genres |-> 0]]
    /\ author_prefs = [u \in Users |-> NoPrefsDoc]
    /\ nops = 0
    /\ scenario = [u \in Users |->
                     [stage |-> "fresh", book |-> None, author |-> <<>>]]

NextAuthor ==
    \E u \in Users, b \in Books, a \in AuthorNames, g \in GenreLists :
        \/ LikeBook(u, b, a, g)
        \/ DislikeBook(u, b, a, g)
        \/ \E action \in Actions : RemoveInteraction(u, b, a, g, action)

\* the handlers together with the best-from-author route
NextAuthorCache ==
    \/ NextAuthor
    \/ \E u \in Users : BestFromAuthorRequest(u)

\* ---------------------------------------------------------------------
\* like_book / dislike_book run by concurrent request threads.  A handler
\* reads the pair's document with find_one and later writes with
\* update_one or insert_one; other requests may run in between.
\* ---------------------------------------------------------------------
\* number of request threads
NumThreads == 2
\* total number of requests in one behaviour
MaxReqs == 3

Threads == 1..NumThreads

IdleReq == [pc |-> "idle", op |-> None, user |-> TheUser, book |-> None,
            author |-> <<>>, genres |-> <<>>, existing |-> None]

\* interactions_collection.find_one({"user_id": ..., "book_name": ...}):
\* the action of the first matching document, or None
FindOne(docs) == IF docs = <<>> THEN None ELSE docs[1]

\* interactions_collection.update_one(..., {"$set": {"action": action}}):
\* the first matching document is updated, nothing when there is none
UpdateOne(docs, action) ==
    IF docs = <<>> THEN docs ELSE [docs EXCEPT ![1] = action]

\* interactions_collection.delete_one(...)
DeleteOne(docs) == IF docs = <<>> THEN docs ELSE Tail(docs)

ConcurrentFrame == UNCHANGED <<counterVars, interactions, nops, scenario,
                              ubcfVars, trainVars, contentVars, flightVars>>

\* like_book / dislike_book up to and including find_one
FindInteraction(t, op, u, b, book_author, genres) ==
    /\ req[t].pc = "idle"
    /\ nreqs < MaxReqs
    /\ nreqs' = nreqs + 1
    /\ req' = [req EXCEPT ![t] =
                 [pc |-> "found", op |-> op, user |-> u, book |-> b,
                  author |-> book_author, genres |-> genres,
                  existing |-> FindOne(interaction_docs[u][b])]]
    /\ UNCHANGED <<interaction_docs, liked_genres, disliked_genres,
                   author_prefs, cache>>
    /\ ConcurrentFrame

\* like_book from `if existing_interaction:` to the end
ApplyLike(t) ==
    LET r == req[t]
        u == r.user
        b == r.book
    IN  /\ r.pc = "found"
        /\ r.op = "like"
        /\ req' = [req EXCEPT ![t] = IdleReq]
        /\ IF r.existing = "like"
           THEN UNCHANGED <<interaction_docs, liked_genres, disliked_genres,
                            author_prefs, cache>>
           ELSE LET overwrite == r.existing = "dislike"
                    removed == IF overwrite
                               THEN RemoveAuthorPreference(author_prefs[u],
                                       r.author, "dislike", b)
                               ELSE author_prefs[u]
                    updated == UpdateAuthorPreference(removed, r.author,
                                                      "like", b)
                    changed == TopAuthorName(removed)
                                  # TopAuthorName(updated)
                IN  /\ interaction_docs' =
                         [interaction_docs EXCEPT ![u][b] =
                            IF overwrite THEN UpdateOne(@, "like")
                            ELSE Append(@, "like")]
                    /\ IF overwrite
                       THEN /\ disliked_genres' =
                                 [disliked_genres EXCEPT ![u] =
                                    RemoveGenrePreferences(@, r.genres,
                                                           Len(r.genres))]
                            /\ UNCHANGED liked_genres
                       ELSE /\ liked_genres' =
                                 [liked_genres EXCEPT ![u] =
                                    AddGenrePreferences(@, r.genres,
                                                        Len(r.genres))]
                            /\ UNCHANGED disliked_genres
                    /\ author_prefs' = [author_prefs EXCEPT ![u] = updated]
                    /\ cache' = CacheAfterInteraction(cache, u, changed)
        /\ UNCHANGED nreqs
        /\ ConcurrentFrame

\* dislike_book from `if existing_interaction:` to the end; book_author[0]
\* raises IndexError on the empty string
ApplyDislike(t) ==
    LET r == req[t]
        u == r.user
        b == r.book
    IN  /\ r.pc = "found"
        /\ r.op = "dislike"
        /\ req' = [req EXCEPT ![t] = IdleReq]
        /\ IF r.existing = "dislike"
           THEN UNCHANGED <<interaction_docs, liked_genres, disliked_genres,
                            author_prefs, cache>>
           ELSE IF r.existing = "like"
           THEN LET removed == RemoveAuthorPreference(author_prefs[u],
                                  r.author, "like", b)
                IN  /\ interaction_docs' =
                         [interaction_docs EXCEPT ![u][b] =
                            UpdateOne(@, "dislike")]
                    /\ liked_genres' =
                         [liked_genres EXCEPT ![u] =
                            RemoveGenrePreferences(@, r.genres,
                                                   Len(r.genres))]
                    /\ UNCHANGED disliked_genres
                    /\ IF r.author = <<>>
                       THEN /\ author_prefs' =
                                 [author_prefs EXCEPT ![u] = removed]
                            /\ UNCHANGED cache
                       ELSE LET updated ==
                                  UpdateAuthorPreference(removed,
                                     FirstChar(r.author), "dislike", b)
                                changed == TopAuthorName(removed)
                                              # TopAuthorName(updated)
                            IN  /\ author_prefs' =
                                     [author_prefs EXCEPT ![u] = updated]
                                /\ cache' = CacheAfterInteraction(cache, u,
                                                                  changed)
           ELSE IF r.author = <<>>
           THEN UNCHANGED <<interaction_docs, liked_genres, disliked_genres,
                            author_prefs, cache>>
           ELSE LET updated == UpdateAuthorPreference(author_prefs[u],
                                  FirstChar(r.author), "dislike", b)
                    changed == TopAuthorName(author_prefs[u])
                                  # TopAuthorName(updated)
                IN  /\ interaction_docs' =
                         [interaction_docs EXCEPT ![u][b] =
                            Append(@, "dislike")]
                    /\ disliked_genres' =
                         [disliked_genres EXCEPT ![u] =
                            AddGenrePreferences(@, r.genres, Len(r.genres))]
                    /\ UNCHANGED liked_genres
                    /\ author_prefs' = [author_prefs EXCEPT ![u] = updated]
                    /\ cache' = CacheAfterInteraction(cache, u, changed)
        /\ UNCHANGED nreqs
        /\ ConcurrentFrame

\* remove_interaction served while other requests are in flight
RemoveConcurrent(u, b, book_author, genres, action) ==
    /\ nreqs < MaxReqs
    /\ nreqs' = nreqs + 1
    /\ interaction_docs' = [interaction_docs EXCEPT ![u][b] = DeleteOne(@)]
    /\ author_prefs' = [author_prefs EXCEPT ![u] =
                          RemoveAuthorPreference(@, book_author, action, b)]
    /\ IF action = "like"
       THEN /\ liked_genres' =
                 [liked_genres EXCEPT ![u] =
                    RemoveGenrePreferences(@, genres, Len(genres))]
            /\ UNCHANGED disliked_genres
       ELSE /\ disliked_genres' =
                 [disliked_genres EXCEPT ![u] =
                    RemoveGenrePreferences(@, genres, Len(genres))]
            /\ UNCHANGED liked_genres
    /\ UNCHANGED <<req, cache>>
    /\ ConcurrentFrame

InitConcurrent ==
    /\ interaction_docs = [u \in Users |-> [b \in Books |-> <<>>]]
    /\ req = [t \in Threads |-> IdleReq]
    /\ nreqs = 0

NextConcurrent ==
    \/ \E t \in Threads, op \in Actions, u \in Users, b \in Books,
          a \in AuthorNames, g \in GenreLists :
            FindInteraction(t, op, u, b, a, g)
    \/ \E t \in Threads : ApplyLike(t)
    \/ \E t \in Threads : ApplyDislike(t)
    \/ \E u \in Users, b \in Books, a \in AuthorNames, g \in GenreLists,
          action \in Actions : RemoveConcurrent(u, b, a, g, action)

\* ---------------------------------------------------------------------
\* ALSRecommendationEngine.get_enhanced_ubcf_recommendations
\* ---------------------------------------------------------------------
\* operations served in one behaviour of the recommendation model
MaxUbcfOps == 3
\* largest num_recommendations requested
MaxRecs == 3

\* `if score < 0.5: continue`; similarity scores are kept in tenths
SimilarityFloor == 5

SimUsers == {"s1", "s2", "s3"}

\* a book without a language_of_book value
NoLanguage == ""

\* the books collection: popularity_score and language_of_book by name
BookInfo ==
    ("B" :> [popularity_score |-> 2, language_of_book |-> "english"]) @@
    ("C" :> [popularity_score |-> 5, language_of_book |-> "english"]) @@
    ("D" :> [popularity_score |-> 3, language_of_book |-> "french"]) @@
    ("E" :> [popularity_score |-> 5, language_of_book |-> NoLanguage])

Catalogue == DOMAIN BookInfo

\* _get_book_info: the document named book_name, or None (empty sequence)
GetBookInfo(book_name) ==
    IF book_name \in Catalogue THEN <<BookInfo[book_name]>> ELSE <<>>

\* the stored similarity documents the target user may have; the lists
\* are written by save_user_similarities in descending score order
SimEntries ==
    { <<>>,
      << << [user |-> "s1", score |-> 9], [user |-> "s2", score |-> 6] >> >>,
      << << [user |-> "s1", score |-> 9], [user |-> "s2", score |-> 6],
            [user |-> "s3", score |-> 4] >> >>,
      << << [user |-> "s2", score |-> 7], [user |-> "s1", score |-> 5] >> >>,
      << << [user |-> "s3", score |-> 4] >> >> }

\* the liked books of the similar users, as get_user_interactions returns
\* them; "Z" is a book name without a document in the books collection
LikedByChoices ==
    { [u \in SimUsers |->
         CASE u = "s1" -> <<"B", "C">>
           [] u = "s2" -> <<"D">>
           [] OTHER    -> <<"E">>],
      [u \in SimUsers |->
         CASE u = "s1" -> <<"B", "C", "E">>
           [] u = "s2" -> <<"D", "B">>
           [] OTHER    -> <<"C">>],
      [u \in SimUsers |->
         CASE u = "s1" -> <<"Z", "B", "B">>
           [] u = "s2" -> <<"E", "D">>
           [] OTHER    -> <<>>] }

\* _languages_match: the pairs (shorter, longer) of the model's language
\* strings in which the first is a substring of the second
SubstringPairs == { <<"en", "english">>, <<"en", "french">> }

\* _languages_match: language_mappings, restricted to the model's strings
LanguageMappings == { {"en", "english"}, {"french"} }

UserLanguageChoices == { {}, {"english"}, {"en"} }

\* _languages_match(book_language, user_language)
LanguagesMatch(book_language, user_language) ==
    \/ book_language = user_language
    \/ <<user_language, book_language>> \in SubstringPairs
    \/ <<book_language, user_language>> \in SubstringPairs
    \/ \E alternatives \in LanguageMappings :
          user_language \in alternatives /\ book_language \in alternatives

\* _meets_language_requirement(book_info, user_languages)
MeetsLanguageRequirement(book_info, langs) ==
    \/ langs = {}
    \/ book_info.language_of_book = NoLanguage
    \/ \E user_lang \in langs :
          LanguagesMatch(book_info.language_of_book, user_lang)

Range(s) == {s[j] : j \in 1..Len(s)}

Min(a, b) == IF a < b THEN a ELSE b

\* s[:n]
Take(s, n) == SubSeq(s, 1, Min(n, Len(s)))

\* `if score < 0.5: continue`
BelowFloorNever(score) == FALSE
BelowFloor(score) == score < SimilarityFloor

\* sorted_user_ids: the similar users at or above the floor, in stored
\* order
RECURSIVE SortedUserIds(_, _)
SortedUserIds(entry, k) ==
    IF k = 0 THEN <<>>
    ELSE LET rest == SortedUserIds(entry, k - 1)
         IN  IF BelowFloor(entry[k].score) THEN rest
             ELSE Append(rest, entry[k].user)

\* liked_books before the sort: the similar user's books the target has
\* not interacted with, one entry per name, that have a book document
RECURSIVE LikedCandidates(_, _, _)
LikedCandidates(books, k, seen) ==
    IF k = 0 THEN <<>>
    ELSE LET done == LikedCandidates(books, k - 1, seen)
             book_name == books[k]
         IN  IF book_name \in seen THEN done
             ELSE IF book_name \in Range(done) THEN done
             ELSE IF GetBookInfo(book_name) = <<>> THEN done
             ELSE Append(done, book_name)

\* sort(key=popularity_score, reverse=True): p goes after q when p < q
PopularityAfterAscending(p, q) == p > q
PopularityAfter(p, q) == p < q

PopularityInsertPos(s, book_name) ==
    LET later == {j \in 1..Len(s) :
                    PopularityAfter(BookInfo[s[j]].popularity_score,
                                    BookInfo[book_name].popularity_score)}
    IN  IF later = {} THEN Len(s) + 1
        ELSE CHOOSE j \in later : \A k \in later : j <= k

RECURSIVE SortByPopularityPrefix(_, _)
SortByPopularityPrefix(s, n) ==
    IF n = 0 THEN <<>>
    ELSE LET done == SortByPopularityPrefix(s, n - 1)
             pos  == PopularityInsertPos(done, s[n])
         IN  SubSeq(done, 1, pos - 1) \o <<s[n]>>
                \o SubSeq(done, pos, Len(done))

\* liked_books.sort(key=lambda x: x.get("popularity_score", 0),
\* reverse=True)
SortByPopularity(s) == SortByPopularityPrefix(s, Len(s))

\* the inner loop over one similar user's liked_books
RECURSIVE AddFromUser(_, _, _, _, _)
AddFromUser(recs, liked, k, n, langs) ==
    IF k = 0 THEN recs
    ELSE LET r == AddFromUser(recs, liked, k - 1, n, langs)
             book_name == liked[k]
         IN  IF Len(r) >= n THEN r
             ELSE IF book_name \in Range(r) THEN r
             ELSE IF ~MeetsLanguageRequirement(BookInfo[book_name], langs)
             THEN r
             ELSE Append(r, book_name)

\* the outer loop over sorted_user_ids
RECURSIVE Cascade(_, _, _, _, _, _)
Cascade(uids, k, likes, seen, langs, n) ==
    IF k = 0 THEN <<>>
    ELSE LET r == Cascade(uids, k - 1, likes, seen, langs, n)
             liked == SortByPopularity(
                         LikedCandidates(likes[uids[k]],
                                         Len(likes[uids[k]]), seen))
         IN  IF Len(r) >= n THEN r
             ELSE AddFromUser(r, liked, Len(liked), n, langs)

\* get_enhanced_ubcf_recommendations from the similarity document to
\* final_recommendations (book names)
ComputeRecommendations(entry, likes, seen, langs, n) ==
    LET uids == SortedUserIds(entry, Len(entry))
    IN  Take(Cascade(uids, Len(uids), likes, seen, langs, n), n)

\* _retrain_for_new_user: `if interaction_count == 0: return False`
SkipsRetrainNever(interaction_count) == FALSE
SkipsRetrain(interaction_count) == interaction_count = 0

\* the ways _retrain_for_new_user can end once it is past that test
RetrainOutcomes == {"no_script", "failed", "load_failed", "ok"}

NoCall == [made |-> FALSE, n |-> 0, result |-> <<>>, from_cache |-> FALSE,
           retrain_attempted |-> FALSE, count_zero |-> FALSE,
           no_entry |-> FALSE, was_mapped |-> FALSE,
           script_exists |-> FALSE, gave_up |-> FALSE]

UbcfFrame ==
    UNCHANGED <<counterVars, authorVars, ubiVars, trainVars, contentVars,
                flightVars>>

\* the similarity documents a successful training run may write for the
\* target user
RetrainedEntries ==
    { <<>>,
      << << [user |-> "s1", score |-> 9], [user |-> "s2", score |-> 6],
            [user |-> "s3", score |-> 4] >> >> }

\* the call's record before its result is known
NewCall(n, attempted, outcome) ==
    [made |-> TRUE, n |-> n, result |-> <<>>, from_cache |-> FALSE,
     retrain_attempted |-> attempted,
     count_zero |-> Cardinality(target_seen) = 0,
     no_entry |-> FALSE,
     was_mapped |-> in_mapping,
     script_exists |-> outcome # "no_script",
     gave_up |-> FALSE]

\* from `similar_users = ...find_one(...)` to the end, on the document
\* entry; the result is cached when it is not empty and Redis is available
ComputeAndCache(call, entry, n, redis_ok) ==
    LET result == IF entry = <<>> THEN <<>>
                  ELSE ComputeRecommendations(entry[1], liked_by,
                          target_seen, user_languages, n)
    IN  /\ last_call' = [call EXCEPT !.result = result,
                                     !.no_entry = (entry = <<>>)]
        /\ IF result # <<>> /\ redis_ok
           THEN /\ cache' = [cache EXCEPT ![KeyCollaborative] = "data"]
                /\ cached_recs' = result
           ELSE UNCHANGED <<cache, cached_recs>>

\* get_enhanced_ubcf_recommendations(user_id, n)
GetRecommendations(n) ==
    /\ nubcf < MaxUbcfOps
    /\ nubcf' = nubcf + 1
    /\ \E redis_ok \in BOOLEAN :
         IF redis_ok /\ cache[KeyCollaborative] # Absent
         THEN \* return cached_recommendations[:num_recommendations]
              /\ last_call' = [NewCall(n, FALSE, "ok") EXCEPT
                                 !.result = Take(cached_recs, n),
                                 !.from_cache = TRUE]
              /\ UNCHANGED <<sim_entry, in_mapping, cache, cached_recs>>
         ELSE IF in_mapping
         THEN /\ ComputeAndCache(NewCall(n, FALSE, "ok"), sim_entry, n,
                                 redis_ok)
              /\ UNCHANGED <<sim_entry, in_mapping>>
         ELSE \* if not self._retrain_for_new_user(user_id): return []
              \E outcome \in RetrainOutcomes :
                LET attempted ==
                       /\ ~SkipsRetrain(Cardinality(target_seen))
                       /\ outcome # "no_script"
                    call == NewCall(n, attempted, outcome)
                IN  IF attempted /\ outcome = "ok"
                    THEN \E new_entry \in RetrainedEntries,
                            new_mapped \in BOOLEAN :
                           /\ sim_entry' = new_entry
                           /\ in_mapping' = new_mapped
                           /\ ComputeAndCache(call, new_entry, n, redis_ok)
                    ELSE /\ last_call' = [call EXCEPT
                                            !.gave_up = TRUE,
                                            !.no_entry = (sim_entry = <<>>)]
                         /\ UNCHANGED <<sim_entry, in_mapping, cache,
                                        cached_recs>>
    /\ UNCHANGED <<liked_by, target_seen, user_languages>>
    /\ UbcfFrame

\* like_book / dislike_book of the target user on a book it has not
\* interacted with, as the recommender sees it: the book joins the
\* user's interacted names and invalidate_user_recommendations runs
\* (it returns at once when Redis is not available)
TargetInteracts(book_name) ==
    /\ nubcf < MaxUbcfOps
    /\ nubcf' = nubcf + 1
    /\ book_name \notin target_seen
    /\ target_seen' = target_seen \cup {book_name}
    /\ \E redis_ok \in BOOLEAN :
         IF redis_ok
         THEN /\ cache' = InvalidateUserRecommendations(cache, TheUser)
              /\ cached_recs' = <<>>
         ELSE UNCHANGED <<cache, cached_recs>>
    /\ last_call' = NoCall
    /\ UNCHANGED <<sim_entry, in_mapping, liked_by, user_languages>>
    /\ UbcfFrame

\* the entry's TTL (CACHE_TTL["recommendations"]) runs out
RecommendationsExpire ==
    /\ cache[KeyCollaborative] # Absent
    /\ cache' = [cache EXCEPT ![KeyCollaborative] = Absent]
    /\ cached_recs' = <<>>
    /\ UNCHANGED <<sim_entry, in_mapping, liked_by, target_seen,
                   user_languages, last_call, nubcf>>
    /\ UbcfFrame

\* the recommendation model at rest, as the other specifications see it
InitUbcfIdle ==
    /\ sim_entry = <<>>
    /\ in_mapping = FALSE
    /\ liked_by = [u \in SimUsers |-> <<>>]
    /\ target_seen = {}
    /\ user_languages = {}
    /\ cached_recs = <<>>
    /\ last_call = NoCall
    /\ nubcf = 0

\* the stored data a recommendation request may find
InitUbcf ==
    /\ sim_entry \in SimEntries
    /\ in_mapping \in BOOLEAN
    /\ liked_by \in LikedByChoices
    /\ target_seen \in {{}, {"C"}}
    /\ user_languages \in UserLanguageChoices
    /\ cached_recs = <<>>
    /\ last_call = NoCall
    /\ nubcf = 0

NextUbcf ==
    \/ \E n \in 1..MaxRecs : GetRecommendations(n)
    \/ \E b \in Catalogue : TargetInteracts(b)
    \/ RecommendationsExpire

\* ---------------------------------------------------------------------
\* Streaming training of the content model (ContentBasedRecommender.py)
\* ---------------------------------------------------------------------
\* train_model calls in one behaviour
MaxTrainRuns == 3
\* documents in the books_collection collection
MaxBooks == 3
\* train_model(chunk_size=10000), scaled to the size of the collection
ChunkSize == 2

TrainLanguages == {"english", "french"}

\* self.model_files, in the order _save_fitted_transformers dumps them
ExtractorNames == <<"tfidf", "genre", "author", "year", "svd">>

\* the global arrays, in the order _finalize_faiss_indices saves them
MetaNames == <<"book_ids", "book_names", "book_langs">>

\* os.path.exists
Exists(file) == file # <<>>

PositionIn(names, n) == CHOOSE i \in 1..Len(names) : names[i] = n

\* the files on disk, as one record
Disk ==
    [extractor_files |-> extractor_files, meta_files |-> meta_files,
     index_files |-> index_files, ids_files |-> ids_files]

\* what np.save writes for one of the global arrays; a book's name is
\* carried by the field name of its document
MetaContent(n, recs) ==
    [i \in 1..Len(recs) |->
        IF n = "book_ids" THEN recs[i].id
        ELSE IF n = "book_names" THEN recs[i].name
        ELSE recs[i].lang]

\* _should_retrain
ShouldRetrain ==
    \/ \E i \in 1..Len(MetaNames) : ~Exists(meta_files[MetaNames[i]])
    \/ \E i \in 1..Len(ExtractorNames) :
            ~Exists(extractor_files[ExtractorNames[i]])
    \/ \A l \in TrainLanguages : ~Exists(index_files[l])

\* load_core_components on the files given
LoadCoreComponents(ext, meta, idx, ids) ==
    /\ \A i \in 1..Len(MetaNames) : Exists(meta[MetaNames[i]])
    /\ \A i \in 1..Len(ExtractorNames) : Exists(ext[ExtractorNames[i]])
    /\ Exists(idx["english"])
    /\ Exists(ids["english"])

\* the value load_model() returns; a missing english index is skipped
LoadModel(loaded, ext, meta, idx, ids) ==
    loaded \/ LoadCoreComponents(ext, meta, idx, ids)

\* the loop body of _process_chunk_optimized for one book: the vector
\* and the id are appended to the builder of the book's language, which
\* is created on first use; a vector is named by the book it encodes
AddToBuilders(builders, book) ==
    IF \E i \in 1..Len(builders) : builders[i].lang = book.lang
    THEN [i \in 1..Len(builders) |->
            IF builders[i].lang = book.lang
            THEN [builders[i] EXCEPT !.vectors = Append(@, book.id),
                                     !.ids = Append(@, book.id)]
            ELSE builders[i]]
    ELSE Append(builders, [lang |-> book.lang, vectors |-> <<book.id>>,
                           ids |-> <<book.id>>])

RECURSIVE AddAllToBuilders(_, _)
AddAllToBuilders(builders, chunk) ==
    IF chunk = <<>> THEN builders
    ELSE AddAllToBuilders(AddToBuilders(builders, Head(chunk)), Tail(chunk))

\* _process_chunk_optimized on chunk, where an exception is raised after
\* handled books_collection went through the loop (handled = Len(chunk): none is
\* raised).  The global lists are extended only after the loop.
ProcessChunk(chunk, handled, all, builders) ==
    [ok |-> handled = Len(chunk),
     all |-> IF handled = Len(chunk) THEN all \o chunk ELSE all,
     builders |-> AddAllToBuilders(builders, SubSeq(chunk, 1, handled))]

\* the books_collection the cursor yields in full chunks, and the remaining ones
FullChunkBooks ==
    SubSeq(books_collection, 1,
           (Len(books_collection) \div ChunkSize) * ChunkSize)

RemainingBooks ==
    SubSeq(books_collection,
           (Len(books_collection) \div ChunkSize) * ChunkSize + 1,
           Len(books_collection))

NoRun ==
    [streamed |-> FALSE, done |-> FALSE, stage_failed |-> FALSE,
     result |-> FALSE, before |-> <<>>, after |-> <<>>]

TrainFrame ==
    UNCHANGED <<counterVars, cache, authorVars, ubiVars, ubcfVars,
                contentVars, flightVars>>

\* train_model returns without a streaming run
ReturnsEarly(result) ==
    /\ last_run' = [streamed |-> FALSE, done |-> TRUE,
                    stage_failed |-> FALSE, result |-> result,
                    before |-> Disk, after |-> Disk]
    /\ UNCHANGED <<tpc, all_book_ids, lang_faiss_builders>>

\* the streaming run ends: train_model returns result
Finish(result, failed) ==
    /\ tpc' = "idle"
    /\ all_book_ids' = <<>>
    /\ lang_faiss_builders' = <<>>
    /\ last_run' = [last_run EXCEPT !.done = TRUE, !.result = result,
                                    !.stage_failed = @ \/ failed,
                                    !.after = Disk']

\* train_model up to the start of phase 1
TrainStart ==
    /\ tpc = "idle"
    /\ ntrain < MaxTrainRuns
    /\ ntrain' = ntrain + 1
    /\ IF ~ShouldRetrain
       THEN /\ model_loaded' = LoadModel(model_loaded, extractor_files,
                                         meta_files, index_files, ids_files)
            /\ ReturnsEarly(model_loaded')
       ELSE IF Len(books_collection) = 0
       THEN /\ ReturnsEarly(FALSE)
            /\ UNCHANGED model_loaded
       ELSE /\ tpc' = "fit"
            /\ last_run' = [streamed |-> TRUE, done |-> FALSE,
                            stage_failed |-> FALSE, result |-> FALSE,
                            before |-> Disk, after |-> <<>>]
            /\ UNCHANGED <<model_loaded, all_book_ids, lang_faiss_builders>>
    /\ UNCHANGED <<books_collection, extractor_files, meta_files, index_files,
                   ids_files>>
    /\ TrainFrame

\* _fit_transformers_on_sample: the extractors are fitted on the sample
\* (here the whole collection) and dumped one file after the other; the
\* first dumped files are written, and an exception raised by the
\* fitting or by a dump makes the phase return False
FitTransformers ==
    /\ tpc = "fit"
    /\ UNCHANGED <<books_collection, meta_files, index_files, ids_files,
                   model_loaded, ntrain>>
    /\ \E dumped \in 0..Len(ExtractorNames) :
        /\ extractor_files' =
              [n \in DOMAIN extractor_files |->
                  IF PositionIn(ExtractorNames, n) <= dumped
                  THEN <<Len(books_collection)>> ELSE extractor_files[n]]
        /\ IF dumped < Len(ExtractorNames)
           THEN Finish(FALSE, TRUE)
           ELSE /\ tpc' = "stream"
                /\ UNCHANGED <<all_book_ids, lang_faiss_builders, last_run>>
    /\ TrainFrame

\* _stream_process_all_books, the loop over the cursor: a full chunk
\* whose processing fails ends the run
StreamFullChunks ==
    /\ tpc = "stream"
    /\ UNCHANGED <<books_collection, extractor_files, meta_files, index_files,
                   ids_files, model_loaded, ntrain>>
    /\ \/ /\ FullChunkBooks # <<>>
          /\ Finish(FALSE, TRUE)
       \/ /\ all_book_ids' = FullChunkBooks
          /\ lang_faiss_builders' = AddAllToBuilders(<<>>, FullChunkBooks)
          /\ tpc' = IF RemainingBooks # <<>> THEN "final_chunk"
                    ELSE "finalize"
          /\ UNCHANGED last_run
    /\ TrainFrame

\* _stream_process_all_books, "Process remaining books_collection": the value
\* _process_chunk_optimized returns is not looked at
StreamFinalChunk ==
    /\ tpc = "final_chunk"
    /\ \E handled \in 0..Len(RemainingBooks) :
        LET r == ProcessChunk(RemainingBooks, handled, all_book_ids,
                              lang_faiss_builders)
        IN  /\ all_book_ids' = r.all
            /\ lang_faiss_builders' = r.builders
            /\ last_run' = [last_run EXCEPT !.stage_failed = ~r.ok]
    /\ tpc' = "finalize"
    /\ UNCHANGED <<books_collection, extractor_files, meta_files, index_files,
                   ids_files, model_loaded, ntrain>>
    /\ TrainFrame

\* the position of a file in the order _finalize_faiss_indices writes:
\* the three global arrays, then for each builder its index file and its
\* id file
MetaWrite(n) == PositionIn(MetaNames, n)

IndexWrite(b) == Len(MetaNames) + 2 * b - 1

IdsWrite(b) == Len(MetaNames) + 2 * b

BuilderOf(builders, l) == CHOOSE b \in 1..Len(builders) : builders[b].lang = l

HasBuilder(builders, l) == \E b \in 1..Len(builders) : builders[b].lang = l

\* _finalize_faiss_indices: the first written files are on disk when an
\* exception is raised (by a write, or by building the index that the
\* next write would save); with every file written the run returns what
\* load_model() returns
FinalizeFaissIndices ==
    /\ tpc = "finalize"
    /\ UNCHANGED <<books_collection, extractor_files, ntrain>>
    /\ \E written \in 0..(Len(MetaNames) + 2 * Len(lang_faiss_builders)) :
        /\ meta_files' =
              [n \in DOMAIN meta_files |->
                  IF MetaWrite(n) <= written
                  THEN <<MetaContent(n, all_book_ids)>> ELSE meta_files[n]]
        /\ index_files' =
              [l \in TrainLanguages |->
                  IF /\ HasBuilder(lang_faiss_builders, l)
                     /\ IndexWrite(BuilderOf(lang_faiss_builders, l)) <= written
                  THEN <<lang_faiss_builders[
                            BuilderOf(lang_faiss_builders, l)].vectors>>
                  ELSE index_files[l]]
        /\ ids_files' =
              [l \in TrainLanguages |->
                  IF /\ HasBuilder(lang_faiss_builders, l)
                     /\ IdsWrite(BuilderOf(lang_faiss_builders, l)) <= written
                  THEN <<lang_faiss_builders[
                            BuilderOf(lang_faiss_builders, l)].ids>>
                  ELSE ids_files[l]]
        /\ IF written < Len(MetaNames) + 2 * Len(lang_faiss_builders)
           THEN /\ Finish(FALSE, TRUE)
                /\ UNCHANGED model_loaded
           ELSE /\ model_loaded' = LoadModel(model_loaded, extractor_files,
                                             meta_files', index_files',
                                             ids_files')
                /\ Finish(model_loaded', FALSE)
    /\ TrainFrame

\* a document with a summary and a language is inserted into books_collection
AddBook(lang) ==
    /\ tpc = "idle"
    /\ Len(books_collection) < MaxBooks
    /\ books_collection' =
          Append(books_collection, [id |-> Len(books_collection) + 1,
                                    name |-> Len(books_collection) + 1,
                                    lang |-> lang])
    /\ UNCHANGED <<extractor_files, meta_files, index_files, ids_files,
                   model_loaded, tpc, all_book_ids, lang_faiss_builders,
                   last_run, ntrain>>
    /\ TrainFrame

\* the models directory is emptied between two runs, which is one of the
\* conditions _should_retrain tests to start a new streaming run
RemoveExtractors ==
    /\ tpc = "idle"
    /\ \E i \in 1..Len(ExtractorNames) :
            Exists(extractor_files[ExtractorNames[i]])
    /\ extractor_files' = [n \in DOMAIN extractor_files |-> <<>>]
    /\ UNCHANGED <<books_collection, meta_files, index_files, ids_files,
                   model_loaded, tpc, all_book_ids, lang_faiss_builders,
                   last_run, ntrain>>
    /\ TrainFrame

InitTrain ==
    /\ books_collection = <<>>
    /\ extractor_files = [n \in Range(ExtractorNames) |-> <<>>]
    /\ meta_files = [n \in Range(MetaNames) |-> <<>>]
    /\ index_files = [l \in TrainLanguages |-> <<>>]
    /\ ids_files = [l \in TrainLanguages |-> <<>>]
    /\ model_loaded = FALSE
    /\ tpc = "idle"
    /\ all_book_ids = <<>>
    /\ lang_faiss_builders = <<>>
    /\ last_run = NoRun
    /\ ntrain = 0

NextTrain ==
    \/ TrainStart
    \/ FitTransformers
    \/ StreamFullChunks
    \/ StreamFinalChunk
    \/ FinalizeFaissIndices
    \/ \E l \in TrainLanguages : AddBook(l)
    \/ RemoveExtractors

\* ---------------------------------------------------------------------
\* Content-based requests (ContentBasedRecommender.py,
\* utils/user_language_detector.py)
\* ---------------------------------------------------------------------
\* content-based requests in one behaviour
MaxContentOps == 3
\* the largest limit a request asks for
MaxLimit == 2

\* _transform_single_book_to_vector: len(self.vector_cache) > 1000
VectorCacheCap == 1000
\* _transform_single_book_to_vector: list(self.vector_cache.keys())[:100]
VectorCacheEvict == 100

ContentUsers == {"ua", "ub"}

\* users.user_languages of each user's profile
ProfileLanguages == [ua |-> {"french"}, ub |-> {"english"}]

\* the books of the build that is on disk when requests are served
ContentCatalogue ==
    << [id |-> 1, name |-> 1, lang |-> "english"],
       [id |-> 2, name |-> 2, lang |-> "english"],
       [id |-> 3, name |-> 3, lang |-> "french"],
       [id |-> 4, name |-> 4, lang |-> "english"] >>

BookIds == {ContentCatalogue[i].id : i \in 1..Len(ContentCatalogue)}

\* the liked books (most recent first) and disliked books a user may have
HistoryChoices ==
    { [ua |-> [likes |-> <<3, 1>>, dislikes |-> {}],
       ub |-> [likes |-> <<1>>, dislikes |-> {2}]],
      [ua |-> [likes |-> <<>>, dislikes |-> {}],
       ub |-> [likes |-> <<2, 4>>, dislikes |-> {}]],
      [ua |-> [likes |-> <<3>>, dislikes |-> {1}],
       ub |-> [likes |-> <<4>>, dislikes |-> {}]] }

\* inner products with the like profile, in tenths, by book id
SimilarityChoices == { <<9, 7, 5, 3>>, <<5, 8, 8, 6>> }

\* the object self.loaded_languages refers to when it is the set made by
\* __init__ and not a set of the language cache
OwnSet == "own"

\* get_user_languages on a cache miss: the profile languages, and
\* {"english"} for a user without any
DetectLanguages(u) ==
    IF ProfileLanguages[u] # {} THEN ProfileLanguages[u] ELSE {"english"}

\* get_user_languages: the set stored under the user's key is returned
\* itself, after it was detected and stored on a miss
GetUserLanguages(h, u) ==
    IF h.language_cache[u] # <<>> THEN h
    ELSE [h EXCEPT !.language_cache[u] = <<DetectLanguages(u)>>]

\* the value of the set self.loaded_languages refers to
LoadedLanguagesOf(h) ==
    IF h.loaded_languages = OwnSet THEN h.own_languages
    ELSE h.language_cache[h.loaded_languages][1]

\* self.loaded_languages.update(langs) / .add(lang): the set object is
\* changed in place
UpdateLoadedLanguages(h, langs) ==
    IF h.loaded_languages = OwnSet
    THEN [h EXCEPT !.own_languages = @ \cup langs]
    ELSE [h EXCEPT !.language_cache[h.loaded_languages] = <<@[1] \cup langs>>]

\* the languages with an index file and an id file on disk
OnDisk == {l \in TrainLanguages : Exists(index_files[l]) /\ Exists(ids_files[l])}

\* load_core_components, when it succeeds
CoreLoaded(h) ==
    [UpdateLoadedLanguages(h, {"english"}) EXCEPT
        !.faiss_indices = @ \cup {"english"}, !.model_loaded = TRUE]

\* load_model(user_id=u); ok is the value it returns
LoadModelFor(h, u) ==
    IF ~h.model_loaded
       /\ ~LoadCoreComponents(extractor_files, meta_files, index_files,
                              ids_files)
    THEN [h EXCEPT !.ok = FALSE]
    ELSE LET h1 == IF h.model_loaded THEN h ELSE CoreLoaded(h)
             h2 == GetUserLanguages(h1, u)
             target_languages == h2.language_cache[u][1]
         IN  [h2 EXCEPT
                !.faiss_indices = (target_languages \cup {"english"})
                                      \cap OnDisk,
                !.loaded_languages = IF target_languages # {} THEN u ELSE @,
                !.ok = TRUE]

\* the recommender and the language cache, as a request finds them
Heap ==
    [language_cache |-> language_cache, loaded_languages |-> loaded_languages,
     own_languages |-> own_languages, faiss_indices |-> faiss_indices,
     model_loaded |-> model_loaded, ok |-> TRUE]

\* the books of the on-disk build, as load_core_components maps them
InModel(book_id) ==
    /\ Exists(meta_files["book_ids"])
    /\ book_id \in Range(meta_files["book_ids"][1])

\* len(self.vector_cache) > 1000
CacheTooLargeNever(size) == FALSE
CacheTooLarge(size) == size > VectorCacheCap

\* _transform_single_book_to_vector on the cache: a hit leaves it as it
\* is; a miss appends the book's vector and, when the cache then holds
\* more than the cap, deletes the first keys
TransformSingleBookToVector(vcache, book_id) ==
    IF \E i \in 1..Len(vcache) : vcache[i].book_id = book_id
    THEN vcache
    ELSE LET added == Append(vcache, [book_id |-> book_id,
                                      vector |-> book_id])
         IN  IF CacheTooLarge(Len(added))
             THEN SubSeq(added, VectorCacheEvict + 1, Len(added))
             ELSE added

RECURSIVE TransformAll(_, _)
TransformAll(vcache, book_ids) ==
    IF book_ids = <<>> THEN vcache
    ELSE TransformAll(TransformSingleBookToVector(vcache, Head(book_ids)),
                      Tail(book_ids))

\* the ids of seq that satisfy InModel, in order
RECURSIVE IdsInModel(_)
IdsInModel(ids) ==
    IF ids = <<>> THEN <<>>
    ELSE IF InModel(Head(ids)) THEN <<Head(ids)>> \o IdsInModel(Tail(ids))
    ELSE IdsInModel(Tail(ids))

\* the ids of a set in the order the books collection returns them
RECURSIVE Ascending(_)
Ascending(ids) ==
    IF ids = {} THEN <<>>
    ELSE LET least == CHOOSE x \in ids : \A y \in ids : x <= y
         IN  <<least>> \o Ascending(ids \ {least})

\* all_candidates.sort(key=similarity_score, reverse=True): a stable
\* sort, equal scores keep their order
ScoreInsertPos(sorted, c) ==
    Len(SelectSeq(sorted, LAMBDA d : d.similarity_score >= c.similarity_score))

RECURSIVE SortByScore(_)
SortByScore(candidates) ==
    IF candidates = <<>> THEN <<>>
    ELSE LET k == Len(candidates)
             done == SortByScore(SubSeq(candidates, 1, k - 1))
             p == ScoreInsertPos(done, candidates[k])
         IN  SubSeq(done, 1, p) \o <<candidates[k]>>
                 \o SubSeq(done, p + 1, Len(done))

\* index.search(profile, search_limit) on the resident index of lang:
\* the rows in descending inner product, each resolved through the id
\* list; the liked books are skipped
SearchLanguage(lang, limit, liked_book_ids) ==
    LET rows == index_files[lang][1]
        all_ids == ids_files[lang][1]
        search_limit == Min(limit * 3, Len(all_ids))
        scored == [i \in 1..Len(rows) |->
                      [row |-> i, similarity_score |-> similarity[rows[i]]]]
        found == Take(SortByScore(scored), search_limit)
        usable == SelectSeq(found, LAMBDA f :
                      /\ f.row <= Len(all_ids)
                      /\ all_ids[f.row] \notin Range(liked_book_ids))
    IN  [i \in 1..Len(usable) |->
            [book_id |-> all_ids[usable[i].row],
             similarity_score |-> usable[i].similarity_score,
             language |-> lang]]

\* the candidates of the languages of order, one language after another
RECURSIVE AllCandidates(_, _, _, _)
AllCandidates(order, resident, limit, liked_book_ids) ==
    IF order = <<>> THEN <<>>
    ELSE (IF Head(order) \in resident
          THEN SearchLanguage(Head(order), limit, liked_book_ids)
          ELSE <<>>)
         \o AllCandidates(Tail(order), resident, limit, liked_book_ids)

\* "Build final recommendations" over the first k candidates: a book is
\* taken once, until limit books are taken
RECURSIVE BuildRecommendations(_, _, _)
BuildRecommendations(top_candidates, k, limit) ==
    IF k = 0 THEN <<>>
    ELSE LET done == BuildRecommendations(top_candidates, k - 1, limit)
             c == top_candidates[k]
         IN  IF /\ Len(done) < limit
                /\ c.book_id \in BookIds
                /\ \A j \in 1..Len(done) : done[j].book_id # c.book_id
             THEN Append(done, c)
             ELSE done

\* the orders in which a set of languages may be iterated
Orders(langs) ==
    {o \in UNION {[1..n -> langs] : n \in 0..Cardinality(langs)} :
        /\ Len(o) = Cardinality(langs)
        /\ \A i, j \in 1..Len(o) : i # j => o[i] # o[j]}

ContentFrame ==
    /\ UNCHANGED <<counterVars, cache, authorVars, ubiVars, ubcfVars,
                   flightVars>>
    /\ UNCHANGED <<books_collection, extractor_files, meta_files, index_files,
                   ids_files, tpc, all_book_ids, lang_faiss_builders,
                   last_run, ntrain>>
    /\ UNCHANGED <<history, similarity, last_transform>>

\* the recommender and the language cache after a request
Leaves(h) ==
    /\ language_cache' = h.language_cache
    /\ loaded_languages' = h.loaded_languages
    /\ own_languages' = h.own_languages
    /\ faiss_indices' = h.faiss_indices
    /\ model_loaded' = h.model_loaded

\* get_similar_books_for_user(u) up to the search; the list it returns
\* is not part of the state
GetSimilarBooksForUser(u) ==
    /\ ncontent < MaxContentOps
    /\ ncontent' = ncontent + 1
    /\ LET h1 == GetUserLanguages(Heap, u)
           needs_reload ==
               \/ ~h1.model_loaded
               \/ h1.faiss_indices = {}
               \/ ~(h1.language_cache[u][1] \subseteq LoadedLanguagesOf(h1))
           h2 == IF h1.model_loaded /\ h1.language_cache[u][1] # {}
                 THEN UpdateLoadedLanguages(h1, h1.language_cache[u][1])
                 ELSE h1
           loaded == LoadModelFor(h2, u)
           h3 == IF needs_reload
                 THEN IF loaded.ok
                      THEN [loaded EXCEPT !.model_loaded = TRUE,
                                          !.loaded_languages = u]
                      ELSE loaded
                 ELSE IF h2.language_cache[u][1] # {}
                      THEN UpdateLoadedLanguages(h2, h2.language_cache[u][1])
                      ELSE h2
           likes == history[u].likes
           base_found ==
               /\ h3.ok
               /\ likes # <<>>
               /\ InModel(likes[1])
               /\ \/ ContentCatalogue[likes[1]].lang \in h3.faiss_indices
                  \/ "english" \in h3.faiss_indices
       IN  /\ Leaves(h3)
           /\ current_user_id' = IF h1.model_loaded \/ h3.ok THEN u
                                 ELSE current_user_id
           /\ vector_cache' =
                 IF base_found
                 THEN TransformSingleBookToVector(vector_cache, likes[1])
                 ELSE vector_cache
           /\ last_request' = [kind |-> "similar", user |-> u, limit |-> 0,
                               ok |-> h3.ok, recommendations |-> <<>>]
    /\ ContentFrame

\* get_based_on_likes_recommendations(u, liked_books, disliked_books,
\* limit), called with the user's stored interactions
GetBasedOnLikesRecommendations(u, limit) ==
    /\ ncontent < MaxContentOps
    /\ ncontent' = ncontent + 1
    /\ LET h1 == GetUserLanguages(Heap, u)
           needs_load ==
               \/ ~h1.model_loaded
               \/ ~(h1.language_cache[u][1] \subseteq LoadedLanguagesOf(h1))
           loaded == LoadModelFor(h1, u)
           h2 == IF needs_load
                 THEN IF loaded.ok
                      THEN [loaded EXCEPT !.model_loaded = TRUE,
                                          !.loaded_languages = u]
                      ELSE loaded
                 ELSE h1
           liked_book_ids == IdsInModel(history[u].likes)
           disliked_book_ids ==
               IdsInModel(Ascending(history[u].dislikes))
           profiled == h2.ok /\ liked_book_ids # <<>>
           languages_of_user == h2.language_cache[u][1]
           search_languages ==
               IF languages_of_user # {} THEN languages_of_user ELSE {"english"}
       IN  /\ Leaves(h2)
           /\ current_user_id' = IF needs_load /\ h2.ok THEN u
                                 ELSE current_user_id
           /\ vector_cache' =
                 IF profiled
                 THEN TransformAll(vector_cache,
                          Ascending(Range(liked_book_ids))
                              \o disliked_book_ids)
                 ELSE vector_cache
           /\ \E order \in Orders(search_languages) :
                LET all_candidates ==
                        SortByScore(AllCandidates(order, h2.faiss_indices,
                                                  limit, liked_book_ids))
                    top_candidates == Take(all_candidates, limit * 2)
                IN  last_request' =
                        [kind |-> "based_on_likes", user |-> u,
                         limit |-> limit, ok |-> h2.ok,
                         recommendations |->
                            IF profiled
                            THEN BuildRecommendations(top_candidates,
                                     Len(top_candidates), limit)
                            ELSE <<>>]
    /\ ContentFrame

\* the largest book id handed to _transform_single_book_to_vector
MaxVectorBooks == 1104

NoTransform == [made |-> FALSE, book_id |-> 0, before |-> <<>>]

\* the book ids of the cached vectors
CachedBooks(vcache) == {vcache[i].book_id : i \in 1..Len(vcache)}

\* a book that was never transformed; books are first transformed in
\* the order of their ids
FreshBook ==
    IF vector_cache = <<>> THEN 1
    ELSE 1 + vector_cache[Len(vector_cache)].book_id

\* the books a call is made for: a fresh one, and the earliest and
\* latest cached ones
RequestedBooks ==
    {b \in {FreshBook} : b <= MaxVectorBooks}
        \cup (IF vector_cache = <<>> THEN {}
              ELSE {vector_cache[1].book_id,
                    vector_cache[Len(vector_cache)].book_id})

\* _transform_single_book_to_vector(book), for a book with an _id
TransformBook(book_id) ==
    /\ vector_cache' = TransformSingleBookToVector(vector_cache, book_id)
    /\ last_transform' = [made |-> TRUE, book_id |-> book_id,
                          before |-> vector_cache]
    /\ UNCHANGED <<language_cache, loaded_languages, own_languages,
                   faiss_indices, current_user_id, history, similarity,
                   last_request, ncontent>>
    /\ UNCHANGED <<counterVars, cache, authorVars, ubiVars, ubcfVars,
                   trainVars, flightVars>>

NextVectorCache == \E book_id \in RequestedBooks : TransformBook(book_id)

NoRequest ==
    [kind |-> "none", user |-> "", limit |-> 0, ok |-> FALSE,
     recommendations |-> <<>>]

\* the recommender after __init__, with no stored data to serve
InitContentIdle ==
    /\ language_cache = [u \in ContentUsers |-> <<>>]
    /\ loaded_languages = OwnSet
    /\ own_languages = {}
    /\ faiss_indices = {}
    /\ current_user_id = ""
    /\ vector_cache = <<>>
    /\ history = [u \in ContentUsers |-> [likes |-> <<>>, dislikes |-> {}]]
    /\ similarity = <<>>
    /\ last_request = NoRequest
    /\ last_transform = NoTransform
    /\ ncontent = 0

\* the ids of the catalogue's books of one language, in catalogue order
IdsOfLanguage(l) ==
    LET of_l == SelectSeq(ContentCatalogue, LAMBDA b : b.lang = l)
    IN  [i \in 1..Len(of_l) |-> of_l[i].id]

\* the recommender after __init__, with a complete build of the
\* catalogue on disk and the users' interactions stored
InitContent ==
    /\ language_cache = [u \in ContentUsers |-> <<>>]
    /\ loaded_languages = OwnSet
    /\ own_languages = {}
    /\ faiss_indices = {}
    /\ current_user_id = ""
    /\ vector_cache = <<>>
    /\ history \in HistoryChoices
    /\ similarity \in SimilarityChoices
    /\ last_request = NoRequest
    /\ last_transform = NoTransform
    /\ ncontent = 0
    /\ books_collection = ContentCatalogue
    /\ extractor_files =
          [n \in Range(ExtractorNames) |-> <<Len(ContentCatalogue)>>]
    /\ meta_files =
          [n \in Range(MetaNames) |-> <<MetaContent(n, ContentCatalogue)>>]
    /\ index_files = [l \in TrainLanguages |-> <<IdsOfLanguage(l)>>]
    /\ ids_files = [l \in TrainLanguages |-> <<IdsOfLanguage(l)>>]
    /\ model_loaded = FALSE
    /\ tpc = "idle"
    /\ all_book_ids = <<>>
    /\ lang_faiss_builders = <<>>
    /\ last_run = NoRun
    /\ ntrain = 0

NextContent ==
    \/ \E u \in ContentUsers : GetSimilarBooksForUser(u)
    \/ \E u \in ContentUsers, limit \in 1..MaxLimit :
          GetBasedOnLikesRecommendations(u, limit)

\* ---------------------------------------------------------------------
\* Specifications
\* ---------------------------------------------------------------------
InitCounter ==
    /\ current_count = 0
    /\ total_retrainings = 0
    /\ training_in_progress = FALSE
    /\ cpc = [p \in Callers |-> "idle"]
    /\ cval = [p \in Callers |-> 0]
    /\ runs = <<>>
    /\ cache = [k \in CacheKeys |-> Absent]
    /\ ncalls = 0
    /\ ntrue = 0
    /\ dropped_while_running = FALSE
    /\ admin_reset_used = FALSE
    /\ thread_start_failed = FALSE
    /\ crossing = NoCrossing

CallerStep(p) ==
    \/ IncrementCounter(p)
    \/ TriggerCheck(p)
    \/ TriggerReset(p)
    \/ TriggerStart(p)

RunStep(i) ==
    \/ RunInsertRecord(i)
    \/ RunCheckScript(i)
    \/ RunSpawn(i)
    \/ RunCommunicate(i)
    \/ RunWriteStatus(i)
    \/ RunIncTotal(i)
    \/ RunReload(i)
    \/ RunHandler(i)
    \/ RunFinally(i)

RunSteps == \E i \in RunIds : RunStep(i)

TriggerSteps == \E p \in Callers : TriggerCheck(p) \/ TriggerReset(p)
                                      \/ TriggerStart(p)

NextCounter ==
    \/ \E p \in Callers : CallerStep(p)
    \/ RunSteps
    \/ AdminReset

\* the counter together with the request handlers that fill the cache
NextCache ==
    \/ NextCounter
    \/ \E k \in CacheKeys : CachePut(k)

\* ---------------------------------------------------------------------
\* Cold-start retrain for a user missing from the loaded model
\* (ALSRecommendationEngine._retrain_for_new_user), run by the request
\* threads next to the counter's background runs
\* ---------------------------------------------------------------------
\* _retrain_for_new_user calls in one behaviour
MaxColdCalls == 2

\* users that are not in user_mapping
ColdUsers == {"n1", "n2"}

ColdFrame ==
    UNCHANGED <<counterVars, cache, authorVars, ubiVars, ubcfVars,
                trainVars, contentVars, patternVars, inflightVars,
                removeVars>>

\* `if user_object_id not in user_mapping:` and _retrain_for_new_user up
\* to the call of subprocess.run: it returns False when the user has no
\* interaction or the script is missing, and starts train_model.py
\* otherwise; no lock or flag is consulted
ColdRetrainBegin(u) ==
    /\ cold_retrain[u].pc = "idle"
    /\ ~cold_retrain[u].mapped
    /\ ncold < MaxColdCalls
    /\ ncold' = ncold + 1
    /\ \E interaction_count \in 0..1, script_exists \in BOOLEAN :
         cold_retrain' =
            [cold_retrain EXCEPT ![u].pc =
               IF SkipsRetrain(interaction_count) \/ ~script_exists
               THEN "idle" ELSE "running"]
    /\ ColdFrame

\* subprocess.run returns; on return code 0 the model is reloaded and the
\* user may now be in user_mapping
ColdRetrainEnd(u) ==
    /\ cold_retrain[u].pc = "running"
    /\ \E outcome \in RetrainOutcomes \ {"no_script"},
          new_mapped \in BOOLEAN :
         cold_retrain' =
            [cold_retrain EXCEPT ![u] =
               [pc |-> "idle", mapped |-> (outcome = "ok" /\ new_mapped)]]
    /\ UNCHANGED ncold
    /\ ColdFrame

InitCold ==
    /\ cold_retrain = [u \in ColdUsers |-> [pc |-> "idle", mapped |-> FALSE]]
    /\ ncold = 0

\* request threads serving new users while the counter runs
NextColdStart ==
    \/ NextCounter
    \/ \E u \in ColdUsers : ColdRetrainBegin(u)
    \/ \E u \in ColdUsers : ColdRetrainEnd(u)

\* ---------------------------------------------------------------------
\* RedisManager.delete_keys_by_pattern (database/redis_manager.py) issued
\* while other request threads store keys
\* ---------------------------------------------------------------------
\* Redis commands issued in one behaviour
MaxPatternOps == 5

\* routes/books.py: delete_keys_by_pattern("popular_books:*")
PopularPattern == <<"popular_books", "*">>

\* cache_popular_books(books, limit): popular_books:limit:{limit}
PatternKeys ==
    {<<"popular_books", "limit", "10">>, <<"popular_books", "limit", "20">>,
     KeyCollaborative}

\* the reply of KEYS <pattern>
KeysMatching(store, pattern) ==
    {k \in store : MatchesPattern(pattern, k)}

PatternIdle == [pc |-> "idle", keys |-> {}, deleted |-> FALSE]

PatternFrame ==
    UNCHANGED <<counterVars, cache, authorVars, ubiVars, ubcfVars,
                trainVars, contentVars, coldVars, inflightVars,
                removeVars>>

\* delete_keys_by_pattern up to `keys = self._client.keys(pattern)`: it
\* returns 0 when Redis is not available or nothing matches
PatternScan ==
    /\ pd.pc = "idle"
    /\ npd < MaxPatternOps
    /\ npd' = npd + 1
    /\ \E available \in BOOLEAN :
         LET keys == KeysMatching(redis_store, PopularPattern)
         IN  pd' = IF available /\ keys # {}
                   THEN [pc |-> "scanned", keys |-> keys, deleted |-> FALSE]
                   ELSE PatternIdle
    /\ UNCHANGED redis_store
    /\ PatternFrame

\* `deleted_count = self._client.delete(*keys)`: one DEL command for the
\* keys of the reply, or an exception that is logged
PatternDelete ==
    /\ pd.pc = "scanned"
    /\ \E ok \in BOOLEAN :
         /\ redis_store' = IF ok THEN redis_store \ pd.keys ELSE redis_store
         /\ pd' = [pc |-> "idle", keys |-> pd.keys, deleted |-> ok]
    /\ UNCHANGED npd
    /\ PatternFrame

\* another request thread stores a result: redis.set_cache(key, ...)
StoreKey(k) ==
    /\ k \notin redis_store
    /\ npd < MaxPatternOps
    /\ npd' = npd + 1
    /\ redis_store' = redis_store \cup {k}
    /\ UNCHANGED pd
    /\ PatternFrame

InitPattern ==
    /\ redis_store = {}
    /\ pd = PatternIdle
    /\ npd = 0

NextPattern ==
    \/ PatternScan
    \/ PatternDelete
    \/ \E k \in PatternKeys : StoreKey(k)

\* ---------------------------------------------------------------------
\* get_enhanced_ubcf_recommendations running in request threads while
\* like_book / dislike_book of the same user runs in another
\* ---------------------------------------------------------------------
\* requests (recommendation calls and likes / dislikes) in one behaviour
MaxFlightOps == 3

\* the request thread that serves the user's recommendation calls, one
\* after the other; the like / dislike runs in a thread of its own
FlightThreads == 1..1

FlightIdle == [pc |-> "idle", n |-> 0, after |-> {}, result |-> <<>>]

LikerIdle == [pc |-> "idle", book |-> "", keys |-> {}]

NothingServed == [made |-> FALSE, result |-> <<>>, after |-> {}]

InflightFrame ==
    /\ UNCHANGED <<counterVars, authorVars, ubiVars, trainVars, contentVars,
                   coldVars, patternVars, removeVars>>
    /\ UNCHANGED <<liked_by, user_languages, last_call, nubcf>>

\* `return ...`: the list goes back to the route
Serve(t, result) ==
    /\ last_served' = [made |-> TRUE, result |-> result,
                       after |-> flight[t].after]
    /\ flight' = [flight EXCEPT ![t] = FlightIdle]

\* cache_service.get_cached_recommendations(user_id, "enhanced_ubcf") and
\* `if cached_recommendations: return cached_recommendations[:n]`
FlightCheckCache(t, n) ==
    /\ flight[t].pc = "idle"
    /\ nflight < MaxFlightOps
    /\ nflight' = nflight + 1
    /\ \E redis_ok \in BOOLEAN :
         /\ redis_down' = (redis_down \/ ~redis_ok)
         /\ IF redis_ok /\ cache[KeyCollaborative] # Absent
            THEN /\ last_served' = [made |-> TRUE,
                                    result |-> Take(cached_recs, n),
                                    after |-> like_returned]
                 /\ UNCHANGED flight
            ELSE /\ flight' = [flight EXCEPT ![t] =
                                 [pc |-> "mapping", n |-> n,
                                  after |-> like_returned, result |-> <<>>]]
                 /\ UNCHANGED last_served
    /\ UNCHANGED <<sim_entry, in_mapping, target_seen, cache, cached_recs,
                   liker, like_returned>>
    /\ InflightFrame

\* `if user_object_id not in user_mapping:` with the cold-start retrain
FlightCheckMapping(t) ==
    /\ flight[t].pc = "mapping"
    /\ IF in_mapping
       THEN /\ flight' = [flight EXCEPT ![t].pc = "compute"]
            /\ UNCHANGED <<sim_entry, in_mapping, last_served>>
       ELSE \E outcome \in RetrainOutcomes :
              IF /\ ~SkipsRetrain(Cardinality(target_seen))
                 /\ outcome = "ok"
              THEN \E new_entry \in RetrainedEntries,
                      new_mapped \in BOOLEAN :
                     /\ sim_entry' = new_entry
                     /\ in_mapping' = new_mapped
                     /\ flight' = [flight EXCEPT ![t].pc = "compute"]
                     /\ UNCHANGED last_served
              ELSE /\ Serve(t, <<>>)
                   /\ UNCHANGED <<sim_entry, in_mapping>>
    /\ UNCHANGED <<target_seen, cache, cached_recs, liker, like_returned,
                   redis_down, nflight>>
    /\ InflightFrame

\* from `similar_users = ...find_one(...)` to final_recommendations: the
\* user's interacted book names are read here
FlightCompute(t) ==
    /\ flight[t].pc = "compute"
    /\ flight' = [flight EXCEPT
                    ![t].pc = "cache_write",
                    ![t].result =
                        IF sim_entry = <<>> THEN <<>>
                        ELSE ComputeRecommendations(sim_entry[1], liked_by,
                                target_seen, user_languages, flight[t].n)]
    /\ UNCHANGED <<sim_entry, in_mapping, target_seen, cache, cached_recs,
                   liker, like_returned, last_served, redis_down, nflight>>
    /\ InflightFrame

\* `if final_recommendations: cache_service.cache_user_recommendations(..)`
\* and `return final_recommendations`
FlightCacheWrite(t) ==
    /\ flight[t].pc = "cache_write"
    /\ IF flight[t].result # <<>>
       THEN \E redis_ok \in BOOLEAN :
              /\ redis_down' = (redis_down \/ ~redis_ok)
              /\ IF redis_ok
                 THEN /\ cache' = [cache EXCEPT ![KeyCollaborative] = "data"]
                      /\ cached_recs' = flight[t].result
                 ELSE UNCHANGED <<cache, cached_recs>>
       ELSE UNCHANGED <<cache, cached_recs, redis_down>>
    /\ Serve(t, flight[t].result)
    /\ UNCHANGED <<sim_entry, in_mapping, target_seen, liker, like_returned,
                   nflight>>
    /\ InflightFrame

\* like_book / dislike_book up to _update_author_affinity, on a book the
\* user has not interacted with: the interaction is stored
LikeStore(book_name) ==
    /\ liker.pc = "idle"
    /\ nflight < MaxFlightOps
    /\ nflight' = nflight + 1
    /\ book_name \notin target_seen
    /\ target_seen' = target_seen \cup {book_name}
    /\ liker' = [pc |-> "invalidate", book |-> book_name, keys |-> {}]
    /\ UNCHANGED <<sim_entry, in_mapping, cache, cached_recs, flight,
                   like_returned, last_served, redis_down>>
    /\ InflightFrame

\* invalidate_user_recommendations up to `keys = ...keys(pattern)`; with
\* Redis unavailable or no key the handler goes on and returns
LikeScanKeys ==
    /\ liker.pc = "invalidate"
    /\ \E redis_ok \in BOOLEAN :
         LET keys == IF cache[KeyCollaborative] # Absent
                     THEN {KeyCollaborative} ELSE {}
         IN  /\ redis_down' = (redis_down \/ ~redis_ok)
             /\ IF redis_ok /\ keys # {}
                THEN /\ liker' = [liker EXCEPT !.pc = "delete",
                                               !.keys = keys]
                     /\ UNCHANGED like_returned
                ELSE /\ liker' = LikerIdle
                     /\ like_returned' = like_returned \cup {liker.book}
    /\ UNCHANGED <<sim_entry, in_mapping, target_seen, cache, cached_recs,
                   flight, last_served, nflight>>
    /\ InflightFrame

\* `self.redis.get_client().delete(*keys)` and the rest of the handler
LikeDeleteKeys ==
    /\ liker.pc = "delete"
    /\ cache' = [k \in CacheKeys |->
                   IF k \in liker.keys THEN Absent ELSE cache[k]]
    /\ cached_recs' = <<>>
    /\ liker' = LikerIdle
    /\ like_returned' = like_returned \cup {liker.book}
    /\ UNCHANGED <<sim_entry, in_mapping, target_seen, flight, last_served,
                   redis_down, nflight>>
    /\ InflightFrame

InitInflight ==
    /\ flight = [t \in FlightThreads |-> FlightIdle]
    /\ liker = LikerIdle
    /\ like_returned = {}
    /\ last_served = NothingServed
    /\ redis_down = FALSE
    /\ nflight = 0

NextInflight ==
    \/ \E t \in FlightThreads, n \in 1..MaxRecs : FlightCheckCache(t, n)
    \/ \E t \in FlightThreads : FlightCheckMapping(t)
    \/ \E t \in FlightThreads : FlightCompute(t)
    \/ \E t \in FlightThreads : FlightCacheWrite(t)
    \/ \E b \in Catalogue : LikeStore(b)
    \/ LikeScanKeys
    \/ LikeDeleteKeys

InitRemove ==
    last_remove = [seq |-> 0, stored |-> None, action |-> "like",
                   returned |-> FALSE]

InitFlight == InitCold /\ InitPattern /\ InitInflight /\ InitRemove

Init ==
    /\ InitCounter /\ InitAuthor /\ InitConcurrent /\ InitUbcfIdle
    /\ InitTrain /\ InitContentIdle /\ InitFlight

SpecCounter == Init /\ [][NextCounter]_vars

SpecCache == Init /\ [][NextCache]_vars

SpecAuthor == Init /\ [][NextAuthor]_vars

SpecAuthorCache == Init /\ [][NextAuthorCache]_vars

SpecConcurrent == Init /\ [][NextConcurrent]_vars

\* the initial states of the recommendation model: any stored data
InitStored ==
    /\ InitCounter /\ InitAuthor /\ InitConcurrent /\ InitUbcf
    /\ InitTrain /\ InitContentIdle /\ InitFlight

SpecUbcf == InitStored /\ [][NextUbcf]_vars

SpecTrain == Init /\ [][NextTrain]_vars

\* the initial states of the content model: a build on disk
InitBuilt ==
    /\ InitCounter /\ InitAuthor /\ InitConcurrent /\ InitUbcfIdle
    /\ InitContent /\ InitFlight

SpecContent == InitBuilt /\ [][NextContent]_vars

SpecVectorCache == Init /\ [][NextVectorCache]_vars

SpecColdStart == Init /\ [][NextColdStart]_vars

SpecPattern == Init /\ [][NextPattern]_vars

SpecInflight == InitStored /\ [][NextInflight]_vars

\* the thread scheduler runs every started thread and every request that
\* is inside _trigger_model_training
LiveCounter == SpecCounter /\ WF_vars(RunSteps) /\ WF_vars(TriggerSteps)

\* ---------------------------------------------------------------------
\* Properties of the retraining trigger
\* ---------------------------------------------------------------------
AllCallersIdle == \A p \in Callers : cpc[p] = "idle"

\* only increment_counter calls were made, and the thread could be started
OnlyIncrements == ~admin_reset_used /\ ~thread_start_failed

C2_ResetOnlyWithTrigger ==
    [][ (current_count # 0 /\ current_count' = 0 /\ ~admin_reset_used')
          => \E p \in Callers : /\ cpc[p] = "reset"
                                /\ cpc'[p] = "start"
                                /\ current_count = cval[p] ]_vars

\* C3: at most one background run is active at any time, and a caller
\* whose post-increment value reached the threshold while a run is active
\* returns False without launching a run.
C3_SingleFlight ==
    /\ [](Cardinality(ActiveRuns) <= 1)
    /\ [][ \A p \in Callers :
             (cpc[p] = "trigger" /\ ActiveRuns # {} /\ cpc'[p] # "trigger")
                => (cpc'[p] = "idle" /\ runs' = runs /\ ntrue' = ntrue) ]_vars

C3_Witness ==
    /\ dropped_while_running
    /\ ActiveRuns # {}

\* C4: whenever the training-in-progress flag is set it eventually becomes
\* false again, on every path of the trigger and of the background run.
C4_FlagReleased == training_in_progress ~> ~training_in_progress

C4_Witness ==
    /\ ~training_in_progress
    /\ \E i \in RunIds : runs[i].pc = "done" /\ runs[i].record_lost

\* the status rule of a finished run: exit code 0 gives success with one
\* increment of total_retrainings and a reload; non-zero exit gives
\* failed; a timeout kills the child and gives timeout; an exception
\* gives error; without success there is no increment and no reload
OutcomeRule(r) ==
    /\ (r.proc = "exit0" /\ ~r.exc)
          => (r.status = "success" /\ r.retrain_inc = 1 /\ r.reloaded)
    /\ (r.proc = "exitN" /\ ~r.exc) => r.status = "failed"
    /\ (r.proc = "killed" /\ ~r.exc) => r.status = "timeout"
    /\ r.exc => r.status = "error"
    /\ r.status # "success" => (r.retrain_inc = 0 /\ ~r.reloaded)

RECURSIVE SumRetrainInc(_)
SumRetrainInc(n) == IF n = 0 THEN 0 ELSE runs[n].retrain_inc + SumRetrainInc(n - 1)

C6_NoStaleRecommendationKeys ==
    \A i \in RunIds :
        (runs[i].reloaded /\ runs[i].cache_reachable
            /\ runs[i].status = "success")
          => runs[i].stale = {}

\* ---------------------------------------------------------------------
\* Properties of the author preferences
\* ---------------------------------------------------------------------
SortedAuthors(u) == author_prefs[u].sorted_authors

\* C7: after every update_author_preference and remove_author_preference
\* call a user's sorted_authors list is in non-increasing
\* preference_count order, so get_most_preferred_author returns an entry
\* whose preference_count is the maximum over the user's entries.
C7_SortedDescending ==
    \A u \in Users :
        /\ \A i, j \in 1..Len(SortedAuthors(u)) :
             i < j => SortedAuthors(u)[i].preference_count
                         >= SortedAuthors(u)[j].preference_count
        /\ \A j \in 1..Len(SortedAuthors(u)) :
             \A k \in 1..Len(GetMostPreferredAuthor(author_prefs[u])) :
                GetMostPreferredAuthor(author_prefs[u])[k].preference_count
                   >= SortedAuthors(u)[j].preference_count

\* C8: no entry of a user's sorted_authors list has a preference_count
\* less than or equal to 0.
C8_CountsPositive ==
    \A u \in Users :
        \A j \in 1..Len(SortedAuthors(u)) :
            SortedAuthors(u)[j].preference_count > 0

\* C9: for a user with no prior interactions and a non-empty author name,
\* after like_book the most preferred author is that author with
\* preference_count 1, and after a following dislike_book of the same
\* book with the same author it is None.
C9_LikeThenDislike ==
    \A u \in Users :
        /\ (scenario[u].stage = "liked" /\ scenario[u].author # <<>>)
              => /\ GetMostPreferredAuthor(author_prefs[u]) # <<>>
                 /\ GetMostPreferredAuthor(author_prefs[u])[1].author_name
                       = scenario[u].author
                 /\ GetMostPreferredAuthor(author_prefs[u])[1].preference_count
                       = 1
        /\ (scenario[u].stage = "disliked" /\ scenario[u].author # <<>>)
              => GetMostPreferredAuthor(author_prefs[u]) = <<>>

\* the author's net preference_count, an absent author counting as 0
NetCount(doc, author_name) ==
    IF IndexOfAuthor(doc.sorted_authors, author_name) = 0 THEN 0
    ELSE doc.sorted_authors[IndexOfAuthor(doc.sorted_authors, author_name)]
            .preference_count

\* C10: from any state of the store, update_author_preference with like
\* followed by update_author_preference with dislike, for the same author
\* and book, leaves the author's net preference_count at its value before
\* the like.
C10_LikeDislikeRestoresCount ==
    \A u \in Users, a \in AuthorNames, b \in Books :
        NetCount(UpdateAuthorPreference(
                    UpdateAuthorPreference(author_prefs[u], a, "like", b),
                    a, "dislike", b), a)
           = NetCount(author_prefs[u], a)

\* the author's entry in the user's list: a sequence of length 1, or the
\* empty sequence when no entry is named author_name
EntryOf(doc, author_name) ==
    IF IndexOfAuthor(doc.sorted_authors, author_name) = 0 THEN <<>>
    ELSE <<doc.sorted_authors[IndexOfAuthor(doc.sorted_authors,
                                            author_name)]>>

\* C11: from any state of the store and for any (user, author, action,
\* book), update_author_preference followed by remove_author_preference
\* with the same arguments restores the author's entry: same presence or
\* absence, same preference_count, same liked and disliked book sets, same
\* total_interactions.
C11_RemoveInvertsUpdate ==
    \A u \in Users, a \in AuthorNames, action \in Actions, b \in Books :
        EntryOf(RemoveAuthorPreference(
                   UpdateAuthorPreference(author_prefs[u], a, action, b),
                   a, action, b), a)
           = EntryOf(author_prefs[u], a)


\* C12: when like_book or dislike_book overwrites an interaction of the
\* opposite action for the same (user, book), the previous action's genre
\* deltas are removed and the new action's genre deltas are added, so the
\* liked-genre and disliked-genre counts are those of the new action
\* alone: every step that turns a stored dislike into a like decrements
\* the disliked counts of the request's genres and increments the liked
\* counts, and symmetrically for a like turned into a dislike.
C12_OverwriteSymmetric ==
    [][ \A u \in Users, b \in Books :
          /\ (interactions[u][b] = "dislike" /\ interactions'[u][b] = "like")
                => \E g \in GenreLists :
                     /\ disliked_genres'[u] =
                           RemoveGenrePreferences(disliked_genres[u], g,
                                                  Len(g))
                     /\ liked_genres'[u] =
                           AddGenrePreferences(liked_genres[u], g, Len(g))
          /\ (interactions[u][b] = "like" /\ interactions'[u][b] = "dislike")
                => \E g \in GenreLists :
                     /\ liked_genres'[u] =
                           RemoveGenrePreferences(liked_genres[u], g, Len(g))
                     /\ disliked_genres'[u] =
                           AddGenrePreferences(disliked_genres[u], g,
                                               Len(g)) ]_vars

\* C14: whenever a like_book or dislike_book call changes the identity of
\* the user's top author, every best-from-author cache entry stored for
\* that user before the call is gone after it.
C14_TopChangeInvalidates ==
    [][ \A u \in Users :
          TopAuthorName(author_prefs[u]) # TopAuthorName(author_prefs'[u])
             => \A k \in BestFromAuthorKeys(u) : cache'[k] = Absent ]_vars

\* ---------------------------------------------------------------------
\* Properties of the interaction store under concurrent requests
\* ---------------------------------------------------------------------
\* C13: the interaction store holds at most one interaction document per
\* (user, book) pair in every reachable state, including when two
\* like_book / dislike_book requests for the same pair run concurrently.
C13_OneInteractionPerPair ==
    \A u \in Users, b \in Books : Len(interaction_docs[u][b]) <= 1

\* ---------------------------------------------------------------------
\* Properties of the user-similarity cascade
\* ---------------------------------------------------------------------
\* the similarity list the latest call worked on
CurrentEntry == IF sim_entry = <<>> THEN <<>> ELSE sim_entry[1]

\* position in the similarity list of the first user at or above the
\* floor who likes the book, 0 when there is none
ContributorOf(book_name) ==
    LET hits == {k \in 1..Len(CurrentEntry) :
                   /\ CurrentEntry[k].score >= SimilarityFloor
                   /\ book_name \in Range(liked_by[CurrentEntry[k].user])}
    IN  IF hits = {} THEN 0
        ELSE CHOOSE k \in hits : \A m \in hits : k <= m

\* the books a call may return: in the books collection, not interacted
\* with, language-compatible, liked by a similar user at or above the floor
Eligible ==
    {b \in Catalogue :
        /\ b \notin target_seen
        /\ MeetsLanguageRequirement(BookInfo[b], user_languages)
        /\ ContributorOf(b) # 0}

\* C15: get_enhanced_ubcf_recommendations orders the list it computes by
\* the similarity ranking of users: a book contributed by a more-similar user
\* precedes every book contributed by a less-similar user, and the books
\* of one similar user appear in descending popularity order; similar
\* users U1 (0.9, likes B and C) and U2 (0.6, likes D), target has seen
\* C, count 3, yields [B, D].
C15_SimilarityOrder ==
    /\ ComputeRecommendations(
          << [user |-> "s1", score |-> 9], [user |-> "s2", score |-> 6] >>,
          [u \in SimUsers |-> CASE u = "s1" -> <<"B", "C">>
                                [] u = "s2" -> <<"D">>
                                [] OTHER    -> <<>>],
          {"C"}, {}, 3) = <<"B", "D">>
    /\ (last_call.made /\ ~last_call.from_cache) =>
         \A i, j \in 1..Len(last_call.result) :
            LET bi == last_call.result[i]
                bj == last_call.result[j]
            IN  /\ ContributorOf(bi) # 0
                /\ (CurrentEntry[ContributorOf(bi)].score
                       > CurrentEntry[ContributorOf(bj)].score) => i < j
                /\ (i < j /\ ContributorOf(bi) = ContributorOf(bj))
                      => BookInfo[bi].popularity_score
                            >= BookInfo[bj].popularity_score

C15_Witness ==
    /\ last_call.made
    /\ ~last_call.from_cache
    /\ Len(last_call.result) = 3
    /\ ContributorOf(last_call.result[1]) = ContributorOf(last_call.result[2])
    /\ BookInfo[last_call.result[1]].popularity_score
          > BookInfo[last_call.result[2]].popularity_score
    /\ ContributorOf(last_call.result[2]) < ContributorOf(last_call.result[3])

C17_ReturnsRequestedCount ==
    (last_call.made /\ ~last_call.gave_up) =>
        Len(last_call.result) = Min(last_call.n, Cardinality(Eligible))

Untouched(before, after) ==
    \A n \in DOMAIN before : Exists(before[n]) => after[n] = before[n]

PriorArtifactsUntouched(run) ==
    /\ Untouched(run.before.extractor_files, run.after.extractor_files)
    /\ Untouched(run.before.meta_files, run.after.meta_files)
    /\ Untouched(run.before.index_files, run.after.index_files)
    /\ Untouched(run.before.ids_files, run.after.ids_files)

\* C19: when a stage of a streaming run failed (fitting, a chunk, the
\* final partial chunk, finalization), train_model returned False and
\* every artifact that was on disk before the run is as it was.
C19_FailedRunLeavesArtifacts ==
    (last_run.streamed /\ last_run.done /\ last_run.stage_failed)
        => (~last_run.result /\ PriorArtifactsUntouched(last_run))

\* C20: after a streaming run, successful or not, for every language
\* with both an index file and an id file on disk, the id list names,
\* row by row, the books whose vectors are the rows of the index.
C20_IndexAndIdsInSync ==
    (last_run.streamed /\ last_run.done)
        => \A l \in TrainLanguages :
              (Exists(last_run.after.index_files[l])
                  /\ Exists(last_run.after.ids_files[l]))
              => last_run.after.ids_files[l] = last_run.after.index_files[l]

\* ---------------------------------------------------------------------
\* Properties of the content-based requests
\* ---------------------------------------------------------------------
\* the value of self.loaded_languages
RecordedLanguages == LoadedLanguagesOf(Heap)

\* C21: across get_similar_books_for_user and
\* get_based_on_likes_recommendations calls the resident language
\* indices and the recorded loaded_languages only grow: no request
\* removes a language from either, and english stays resident.
C21_LoadedLanguagesGrow ==
    [][ /\ faiss_indices \subseteq faiss_indices'
        /\ RecordedLanguages \subseteq RecordedLanguages' ]_vars

\* the books a user has liked or disliked
Interacted(u) == Range(history[u].likes) \cup history[u].dislikes

\* C22: the list get_based_on_likes_recommendations returns has at most
\* limit books, no book twice, descending similarity, and no book the
\* user has liked or disliked.
C22_BasedOnLikesListSound ==
    last_request.kind = "based_on_likes" =>
        LET recs == last_request.recommendations
        IN  /\ Len(recs) <= last_request.limit
            /\ \A i, j \in 1..Len(recs) :
                  i # j => recs[i].book_id # recs[j].book_id
            /\ \A i, j \in 1..Len(recs) :
                  i < j => recs[i].similarity_score >= recs[j].similarity_score
            /\ \A i \in 1..Len(recs) :
                  recs[i].book_id \notin Interacted(last_request.user)

\* C30: the set get_user_languages returns for a user is the one
\* detected from that user's profile, whatever requests were served for
\* other users.
C30_LanguagesDependOnOwnProfile ==
    \A u \in ContentUsers :
        language_cache[u] # <<>> => language_cache[u][1] = DetectLanguages(u)

\* C25: after every _transform_single_book_to_vector call the vector
\* cache holds at most 1000 entries; an insertion that makes it exceed
\* 1000 evicts exactly the 100 earliest-inserted entries; a hit changes
\* neither the insertion order nor a stored vector.
C25_VectorCacheBounded ==
    /\ Len(vector_cache) <= VectorCacheCap
    /\ last_transform.made =>
        LET before == last_transform.before
            hit == last_transform.book_id \in CachedBooks(before)
            evicted == (CachedBooks(before) \cup {last_transform.book_id})
                           \ CachedBooks(vector_cache)
        IN  /\ hit => vector_cache = before
            /\ ~hit =>
                /\ evicted =
                      IF Len(before) + 1 > VectorCacheCap
                      THEN {before[i].book_id : i \in 1..VectorCacheEvict}
                      ELSE {}
                /\ vector_cache[Len(vector_cache)].book_id
                       = last_transform.book_id
                /\ \A i \in 1..(Len(vector_cache) - 1) :
                      vector_cache[i]
                          = before[i + Len(before) + 1 - Len(vector_cache)]

\* an insertion into a full cache has evicted entries
C25_Witness ==
    /\ last_transform.made
    /\ Len(last_transform.before) = VectorCacheCap
    /\ last_transform.book_id \notin CachedBooks(last_transform.before)
    /\ Len(vector_cache) = VectorCacheCap + 1 - VectorCacheEvict

\* ---------------------------------------------------------------------
\* Further properties of the retraining trigger
\* ---------------------------------------------------------------------
\* the values of training_status other than in_progress
TerminalStatuses == {"success", "failed", "timeout", "error"}

\* C24: once a TrainingRecord's training_status has left in_progress for
\* a terminal value, no later step of the run writes the status (and the
\* completion fields set with it) again; a record set to success is not
\* rewritten to error.
C24_TerminalStatusFinal ==
    [][ \A i \in RunIds :
          runs[i].status \in TerminalStatuses
              => runs'[i].status = runs[i].status ]_vars

\* C27: a trigger dropped because training is in progress does not reset
\* the counter, and the first increment_counter call made after the run
\* has released the flag returns True (it launches a run and resets the
\* counter).  Stated for calls that do not overlap the release or the
\* first call, without POST /counter/reset and with Thread.start() not
\* raising.
C27_DroppedCrossingNotLost ==
    [][ /\ \A p \in Callers :
              (cpc[p] = "trigger" /\ cpc'[p] = "idle")
                  => current_count' = current_count
        /\ (~admin_reset_used' /\ ~thread_start_failed'
                /\ ~crossing'.overlapped)
              => crossing'.result # "false" ]_vars

\* train_model.py processes that are executing: the children of the
\* background runs and of the cold-start retrains
ExecutingTraining ==
    Cardinality({i \in RunIds : runs[i].pc = "wait"})
        + Cardinality({u \in ColdUsers : cold_retrain[u].pc = "running"})

\* C26: the external training procedure is never executing twice at the
\* same time: no cold-start retrain runs during a background run, no
\* background run starts during a cold-start retrain, and two cold-start
\* retrains for different users do not overlap.
C26_TrainingNeverOverlaps == ExecutingTraining <= 1

\* C23: delete_keys_by_pattern is one logical operation for concurrent
\* cache users: when its deletion completes no key matching the pattern
\* is present (a matching key stored during the operation does not
\* survive it), and no step leaves some of the keys that matched at the
\* start deleted while others are still present.
C23_PatternDeleteIsOneOperation ==
    [][ /\ (pd.pc = "scanned" /\ pd'.pc = "idle" /\ pd'.deleted)
              => KeysMatching(redis_store', PopularPattern) = {}
        /\ pd.pc = "scanned"
              => \/ pd.keys \cap redis_store' = {}
                 \/ pd.keys \subseteq redis_store' ]_vars

\* C28: once like_book or dislike_book for a book has returned, no later
\* get_enhanced_ubcf_recommendations call for that user returns the book,
\* whatever recommendation computation was in flight during the like
\* (Redis being reachable throughout).
C28_InteractedBookNeverServed ==
    (last_served.made /\ ~redis_down)
        => \A i \in 1..Len(last_served.result) :
               last_served.result[i] \notin last_served.after

\* C29: remove_interaction for a pair with no stored interaction, or with
\* an action different from the stored one, returns False and leaves the
\* user's author preferences and liked / disliked genre counts unchanged.
C29_MismatchedRemoveIsNoOp ==
    [][ (last_remove'.seq # last_remove.seq
            /\ last_remove'.stored # last_remove'.action)
          => /\ ~last_remove'.returned
             /\ author_prefs' = author_prefs
             /\ liked_genres' = liked_genres
             /\ disliked_genres' = disliked_genres ]_vars

====
